---- MODULE Spec2Model ----
(***************************************************************************)
(* fsesm: the glob finder `find` (patterns -> matchers, ignore rules,      *)
(* depth-bounded concurrent directory walk, result list).                  *)
(*                                                                         *)
(* A string is a sequence of one-character strings: "a.ts" is              *)
(* <<"a", ".", "t", "s">>.  A compiled RegExp is the sequence of the atoms *)
(* its source text consists of.                                            *)
(***************************************************************************)
EXTENDS Integers, Sequences, FiniteSets, TLC

VARIABLES
    tree,               \* the directory tree below the base directory (environment)
    unopenable,         \* directories whose opendir fails (environment)
    host,               \* "posix" | "win32": decides path.sep
    gitignore,          \* the base directory's .gitignore: [exists, content]
    opts,               \* GlobOptions of the find calls
    patternList,        \* the caller's pattern list
    patterns,           \* `patterns` argument of the current find call
    matchers,           \* find: matchers
    ignoreMatchers,     \* find: ignoreMatchers
    ignoreNegMatchers,  \* find: ignoreNegMatchers
    results,            \* find: results
    walks,              \* one walk(dirPath, currentDepth) activation per directory
    outcome,            \* "idle" | "running" | "resolved" | "rejected": the find promise
    returnedLen,        \* Len(results) when the find promise settled
    readFaults,         \* directory reads that failed part-way so far
    hist,               \* what the caller has seen: one [patterns, found, again] per
                        \* resolved call without a read fault (again: not the first
                        \* call with these patterns)
    probe,              \* a matcher or isIgnored applied on its own: the string given
    verdict,            \* ... and the answer: "none" | "ignored" | "kept" |
                        \* "matched" | "unmatched"
    upFs,               \* findFileUpwards: what lstat finds (environment)
    up,                 \* findFileUpwards: the call, its arguments and locals
    envFile,            \* writeEnvVar: the file at envPath (environment)
    wr,                 \* writeEnvVar: the call, its arguments and locals
    jsonFile,           \* readJson / updateJson: the file at filePath (environment)
    uj,                 \* updateJson: the call, its locals and what became of it
    mvFs,               \* move: what is at src and at dest, and how rename fares
    mv,                 \* move: the call, its arguments and what became of it
    slFs,               \* ensureSymlink: what is at dest, and how the calls fare
    sl,                 \* ensureSymlink: the call and what became of it
    lfFs,               \* listFiles: how readdir fares for each directory
    lf,                 \* listFiles: one activation per directory
    ue                  \* updateEnv / writeEnvRecord: the call and its locals

\* find
finder == <<tree, unopenable, host, gitignore, opts, patternList, patterns, matchers,
            ignoreMatchers, ignoreNegMatchers, results, walks, outcome, returnedLen,
            readFaults, hist, probe, verdict>>

\* findFileUpwards and writeEnvVar
helpers == <<upFs, up, envFile, wr>>

\* updateJson, move, ensureSymlink, listFiles, updateEnv
jsonVars == <<jsonFile, uj>>
moveVars == <<mvFs, mv>>
linkVars == <<slFs, sl>>
listVars == <<lfFs, lf>>
tools == <<jsonVars, moveVars, linkVars, listVars, ue>>

vars == <<finder, helpers, tools>>

-----------------------------------------------------------------------------
(* Bounds of the model.                                                     *)

MaxReadFaults == 1      \* directory reads that may fail part-way in one run
MaxIgnoreLen == 2       \* length of the explicit ignore list where isIgnored is applied on its own
MaxPatternLen == 4      \* length of the patterns where a matcher is applied on its own
MaxPathLen == 4         \* length of the strings such a matcher is applied to
MaxLevel == 3           \* depth below the root of the deepest directory findFileUpwards starts from
ProcLevel == 1          \* depth below the root of process.cwd(), which relative paths start from

-----------------------------------------------------------------------------
(* Strings.                                                                 *)

ToSet(s) == {s[i] : i \in 1..Len(s)}

StartsWith(s, c) == Len(s) >= 1 /\ s[1] = c

\* String.prototype.replace(/\\/g, '/')
NormalizeSlashes(s) ==
    [i \in 1..Len(s) |-> IF s[i] = "\\" THEN "/" ELSE s[i]]

-----------------------------------------------------------------------------
\* globToRegex: four global replacements applied in order to the pattern
\* text, then anchoring with ^ and $.  An atom of the regular expression is
\*   raw  c : the character c, untouched so far
\*   esc  c : \c          step 1, an escaped metacharacter
\*   any1   : [^/]        step 2, from ?
\*   dirs   : (?:.+/)?    step 3, from the three characters * * /
\*   star   : [^/]*       step 4, from a remaining *
\* No replacement text contains a character a later step looks for, so the
\* later steps see exactly the raw atoms that are left.

RegexMeta == {".", "+", "^", "$", "{", "}", "(", ")", "|", "[", "]", "\\"}

Raw(c) == [k |-> "raw", c |-> c]

RawText(pattern) == [i \in 1..Len(pattern) |-> Raw(pattern[i])]

\* .replace(/[.+^${}()|[\]\\]/g, "\\$&")
EscapeMeta(r) ==
    [i \in 1..Len(r) |->
        IF r[i].k = "raw" /\ r[i].c \in RegexMeta
        THEN [k |-> "esc", c |-> r[i].c] ELSE r[i]]

\* .replace(/\?/g, "[^/]")
ReplaceQuestion(r) ==
    [i \in 1..Len(r) |-> IF r[i] = Raw("?") THEN [k |-> "any1", c |-> "?"] ELSE r[i]]

\* .replace(/\*\*\//g, "(?:.+/)?") : leftmost, non-overlapping
\* (variant: the step left out)
ReplaceGlobstarSlashOmitted(r) == r

RECURSIVE ReplaceGlobstarSlash(_)
ReplaceGlobstarSlash(r) ==
    IF Len(r) = 0 THEN <<>>
    ELSE IF Len(r) >= 3 /\ r[1] = Raw("*") /\ r[2] = Raw("*") /\ r[3] = Raw("/")
         THEN <<[k |-> "dirs", c |-> "**/"]>> \o ReplaceGlobstarSlash(SubSeq(r, 4, Len(r)))
         ELSE <<r[1]>> \o ReplaceGlobstarSlash(Tail(r))

\* (variant: * stands for exactly one character of a segment)
ReplaceStarOneChar(r) ==
    [i \in 1..Len(r) |-> IF r[i] = Raw("*") THEN [k |-> "any1", c |-> "*"] ELSE r[i]]

\* .replace(/\*/g, "[^/]*")
ReplaceStar(r) ==
    [i \in 1..Len(r) |-> IF r[i] = Raw("*") THEN [k |-> "star", c |-> "*"] ELSE r[i]]

\* new RegExp(`^${escaped}$`): the atoms between the two anchors
globToRegex(pattern) ==
    ReplaceStar(ReplaceGlobstarSlash(ReplaceQuestion(EscapeMeta(RawText(pattern)))))

\* the characters "." does not match (no `s` flag); "[^/]" matches them
LineTerminators == {"\n", "\r"}

\* RegExp.prototype.test for ^atoms$ : atoms re[i..] match exactly s[j..]
RECURSIVE RegexRun(_, _, _, _)
RegexRun(re, i, s, j) ==
    IF i > Len(re) THEN j > Len(s)
    ELSE LET t == re[i] IN
         CASE t.k \in {"raw", "esc"} ->
                  j <= Len(s) /\ s[j] = t.c /\ RegexRun(re, i + 1, s, j + 1)
           [] t.k = "any1" ->
                  j <= Len(s) /\ s[j] # "/" /\ RegexRun(re, i + 1, s, j + 1)
           [] t.k = "star" ->
                  \/ RegexRun(re, i + 1, s, j)
                  \/ j <= Len(s) /\ s[j] # "/" /\ RegexRun(re, i, s, j + 1)
           [] t.k = "dirs" ->
                  \/ RegexRun(re, i + 1, s, j)
                  \/ \E e \in (j + 1)..Len(s) :
                        /\ s[e] = "/"
                        /\ \A k \in j..(e - 1) : s[k] \notin LineTerminators
                        /\ RegexRun(re, i + 1, s, e + 1)

\* (variant: the RegExp without its two anchors: it accepts s when it matches
\* some part of s)
testUnanchored(re, s) ==
    \E a \in 1..(Len(s) + 1) : \E b \in (a - 1)..Len(s) :
        RegexRun(re, 1, SubSeq(s, a, b), 1)

test(re, s) == RegexRun(re, 1, s, 1)


-----------------------------------------------------------------------------
(* node:path on the host.                                                   *)

\* path.sep
sep == IF host = "win32" THEN "\\" ELSE "/"

\* path.resolve(cwd): the absolute base directory
baseDir == IF host = "win32" THEN <<"C", ":", "\\", "w">> ELSE <<"/", "w">>

\* path.join(dirPath, name), for a directory entry name
PathJoin(dirPath, name) == dirPath \o <<sep>> \o name

\* path.relative(from, to), for `to` below `from`
PathRelative(from, to) == SubSeq(to, Len(from) + 2, Len(to))

\* path.resolve(baseDir, relPath)
PathResolve(from, relPath) == from \o <<sep>> \o relPath

\* relPath.split(path.sep).join('/')
SplitJoin(relPath) ==
    [i \in 1..Len(relPath) |-> IF relPath[i] = sep THEN "/" ELSE relPath[i]]

\* index of the last "." of name, 0 when there is none
LastDot(name) ==
    LET dots == {i \in 1..Len(name) : name[i] = "."}
    IN  IF dots = {} THEN 0 ELSE CHOOSE i \in dots : \A j \in dots : j <= i

\* path.extname(name): from the last "." on; empty when there is no "." or the
\* only one leads the name
ExtName(name) ==
    IF LastDot(name) <= 1 THEN <<>> ELSE SubSeq(name, LastDot(name), Len(name))

-----------------------------------------------------------------------------
(* The directory tree.  tree[n] = [parent, name, kind]: parent 0 is the     *)
(* base directory; kind is the dirent's type tag, "dir" (isDirectory),      *)
(* "file" (isFile) or "other" (neither: a symbolic link, a socket ...).     *)
(* A directory yields its entries in the order of their numbers.            *)

Nodes == 1..Len(tree)

Dirs == {0} \cup {n \in Nodes : tree[n].kind = "dir"}

Children(d) ==
    SelectSeq([i \in 1..Len(tree) |-> i], LAMBDA n : tree[n].parent = d)

-----------------------------------------------------------------------------
(* find: the options, the matchers and the ignore rules.                    *)

Infinity == 1000        \* maxDepth = Infinity: above every depth of a tree

\* String.prototype.trim
Whitespace == {" ", "\t", "\r", "\n"}

RECURSIVE TrimLeft(_)
TrimLeft(s) ==
    IF Len(s) > 0 /\ s[1] \in Whitespace THEN TrimLeft(Tail(s)) ELSE s

RECURSIVE TrimRight(_)
TrimRight(s) ==
    IF Len(s) > 0 /\ s[Len(s)] \in Whitespace
    THEN TrimRight(SubSeq(s, 1, Len(s) - 1)) ELSE s

Trim(s) == TrimRight(TrimLeft(s))

\* content.split('\n')
RECURSIVE SplitLines(_, _)
SplitLines(content, line) ==
    IF Len(content) = 0 THEN <<line>>
    ELSE IF content[1] = "\n"
         THEN <<line>> \o SplitLines(Tail(content), <<>>)
         ELSE SplitLines(Tail(content), Append(line, content[1]))

\* (variant: the lines are not trimmed)
loadGitignoreUntrimmed ==
    IF ~gitignore.exists THEN <<>>
    ELSE SelectSeq(SplitLines(gitignore.content, <<>>),
                   LAMBDA line : Len(line) > 0 /\ ~StartsWith(line, "#"))

\* loadGitignore(baseDir): the kept lines, [] when the file cannot be read
loadGitignore ==
    IF ~gitignore.exists THEN <<>>
    ELSE LET lines == SplitLines(gitignore.content, <<>>)
             trimmed == [i \in 1..Len(lines) |-> Trim(lines[i])]
         IN  SelectSeq(trimmed, LAMBDA line : Len(line) > 0 /\ ~StartsWith(line, "#"))

\* const ignoreList = [...ignore, ...gitignorePatterns]
ignoreList ==
    opts.ignore \o (IF opts.useGitignore THEN loadGitignore ELSE <<>>)

\* ign.replace(/\\/g, '/') for each entry of the list
NormalizedList(list) == [i \in 1..Len(list) |-> NormalizeSlashes(list[i])]

\* the for loop over ignoreList: what it pushes on ignoreNegMatchers ...
BuildIgnoreNegMatchers(list) ==
    LET neg == SelectSeq(NormalizedList(list), LAMBDA ign : StartsWith(ign, "!"))
    IN  [i \in 1..Len(neg) |-> globToRegex(Tail(neg[i]))]

\* ... and on ignoreMatchers
BuildIgnoreMatchers(list) ==
    LET deny == SelectSeq(NormalizedList(list), LAMBDA ign : ~StartsWith(ign, "!"))
    IN  [i \in 1..Len(deny) |-> globToRegex(deny[i])]

\* patternList.map(p => p.replace(/\\/g, '/')).map(globToRegex)
BuildMatchers(pl) == [i \in 1..Len(pl) |-> globToRegex(NormalizeSlashes(pl[i]))]

\* someMatcher.some(m => m.test(relPathUnix))
Some(ms, relPathUnix) == \E i \in 1..Len(ms) : test(ms[i], relPathUnix)

\* (variant: the deny matchers decide, the negated ones are not consulted first)
isIgnoredDenyFirst(relPathUnix) ==
    IF Some(ignoreMatchers, relPathUnix) THEN TRUE
    ELSE FALSE

isIgnored(relPathUnix) ==
    IF Some(ignoreNegMatchers, relPathUnix) THEN FALSE
    ELSE IF Some(ignoreMatchers, relPathUnix) THEN TRUE
    ELSE FALSE


-----------------------------------------------------------------------------
(* walk(dirPath, currentDepth).  One activation per directory; its record:  *)
(*   st        "none"    not called                                         *)
(*             "opening" suspended in `await opendir(dirPath)`              *)
(*             "reading" in the `for await` loop, then in                   *)
(*                       `await Promise.all(promises)` once pos is past     *)
(*                       the last entry                                     *)
(*             "done"    its promise is fulfilled                           *)
(*             "threw"   its promise is rejected                            *)
(*   pos       index in Children of the next dirent the loop yields         *)
(*   promises  the directories whose walk it has pushed on `promises`       *)
(*   err       "none" | "open" | "read": what its catch block has caught    *)

NoWalk ==
    [st |-> "none", dirPath |-> <<>>, currentDepth |-> 0, pos |-> 0,
     promises |-> {}, err |-> "none"]

\* the call walk(dirPath, currentDepth), run up to its first await
walk(dirPath, currentDepth) ==
    IF currentDepth > opts.maxDepth
    THEN [NoWalk EXCEPT !.st = "done", !.dirPath = dirPath,
                        !.currentDepth = currentDepth]
    ELSE [NoWalk EXCEPT !.st = "opening", !.dirPath = dirPath,
                        !.currentDepth = currentDepth]

\* matchers.some(matcher => matcher.test(relPathUnix))
\* (variant: matchers.every)
MatchesEveryPattern(relPathUnix) ==
    \A i \in 1..Len(matchers) : test(matchers[i], relPathUnix)

MatchesPatterns(relPathUnix) == Some(matchers, relPathUnix)

\* the catch block of walk: console.error, then walk returns normally
\* (variant: the catch block rethrows)
CatchRethrows == "threw"

CatchResult == "done"

\* whether the loop body pushes the entry on results
\* (variant: `type` not consulted)
CollectsAnyKind(dirent, relPathUnix) ==
    /\ ~isIgnored(relPathUnix)
    /\ IF dirent.kind = "dir"
       THEN MatchesPatterns(relPathUnix)
       ELSE /\ dirent.kind = "file"
            /\ ~(~opts.matchFilesWithoutExtensions /\ ExtName(dirent.name) = <<>>)
            /\ MatchesPatterns(relPathUnix)

\* (variant: the extensionless filter left out)
CollectsExtensionless(dirent, relPathUnix) ==
    /\ ~isIgnored(relPathUnix)
    /\ IF dirent.kind = "dir"
       THEN opts.type \in {"folders", "all"} /\ MatchesPatterns(relPathUnix)
       ELSE /\ dirent.kind = "file"
            /\ opts.type \in {"files", "all"}
            /\ MatchesPatterns(relPathUnix)

\* (variant: the ignore check guarding recursion only)
CollectsIgnored(dirent, relPathUnix) ==
    IF dirent.kind = "dir"
    THEN opts.type \in {"folders", "all"} /\ MatchesPatterns(relPathUnix)
    ELSE /\ dirent.kind = "file"
         /\ opts.type \in {"files", "all"}
         /\ ~(~opts.matchFilesWithoutExtensions /\ ExtName(dirent.name) = <<>>)
         /\ MatchesPatterns(relPathUnix)

\* (variant: whatever is not a directory is taken for a file)
CollectsLinks(dirent, relPathUnix) ==
    /\ ~isIgnored(relPathUnix)
    /\ IF dirent.kind = "dir"
       THEN opts.type \in {"folders", "all"} /\ MatchesPatterns(relPathUnix)
       ELSE /\ opts.type \in {"files", "all"}
            /\ ~(~opts.matchFilesWithoutExtensions /\ ExtName(dirent.name) = <<>>)
            /\ MatchesPatterns(relPathUnix)

Collects(dirent, relPathUnix) ==
    /\ ~isIgnored(relPathUnix)
    /\ IF dirent.kind = "dir"
       THEN opts.type \in {"folders", "all"} /\ MatchesPatterns(relPathUnix)
       ELSE /\ dirent.kind = "file"
            /\ opts.type \in {"files", "all"}
            /\ ~(~opts.matchFilesWithoutExtensions /\ ExtName(dirent.name) = <<>>)
            /\ MatchesPatterns(relPathUnix)

\* whether the loop body pushes walk(fullPath, currentDepth + 1) on promises
\* (variants: the ignore check guarding collection only; <= for <)
DescendsIgnored(dirent, relPathUnix, currentDepth) ==
    dirent.kind = "dir" /\ currentDepth < opts.maxDepth

DescendsOneTooDeep(dirent, relPathUnix, currentDepth) ==
    ~isIgnored(relPathUnix) /\ dirent.kind = "dir" /\ currentDepth <= opts.maxDepth

\* (variant: only a directory that could itself be collected is walked)
DescendsCollected(dirent, relPathUnix, currentDepth) ==
    /\ ~isIgnored(relPathUnix) /\ dirent.kind = "dir" /\ currentDepth < opts.maxDepth
    /\ opts.type \in {"folders", "all"}
    /\ MatchesPatterns(relPathUnix)

Descends(dirent, relPathUnix, currentDepth) ==
    ~isIgnored(relPathUnix) /\ dirent.kind = "dir" /\ currentDepth < opts.maxDepth

\* absolute ? path.resolve(baseDir, relPath) : relPath
OutPath(relPath) ==
    IF opts.absolute THEN PathResolve(baseDir, relPath) ELSE relPath

\* (variant: one push for every matcher that matches)
PushedPerMatcher(dirent, relPathUnix, relPath) ==
    IF Collects(dirent, relPathUnix)
    THEN [i \in 1..Cardinality({m \in 1..Len(matchers) : test(matchers[m], relPathUnix)})
             |-> OutPath(relPath)]
    ELSE <<>>

\* what the loop body pushes on results for one dirent: results.push(...) behind
\* matchers.some(...), in one of the two branches
Pushed(dirent, relPathUnix, relPath) ==
    IF Collects(dirent, relPathUnix) THEN <<OutPath(relPath)>> ELSE <<>>

Settled(d) == walks[d].st \in {"done", "threw"}

\* await Promise.all(promises) can continue
\* (variant: the promises are not awaited)
JoinWithoutWaiting(d) == TRUE

JoinReady(d) == \A c \in walks[d].promises : Settled(c)

Quiescent == \A d \in Dirs : walks[d].st \in {"none", "done", "threw"}

env == <<tree, unopenable, host, gitignore, opts, patternList>>

-----------------------------------------------------------------------------
(* Actions.                                                                 *)

\* (variant: `results` declared outside find, shared by the calls)
StartCallSharedResults(pl) ==
    /\ patterns' = pl
    /\ matchers' = BuildMatchers(pl)
    /\ ignoreNegMatchers' = BuildIgnoreNegMatchers(ignoreList)
    /\ ignoreMatchers' = BuildIgnoreMatchers(ignoreList)
    /\ results' = results
    /\ walks' = [d \in Dirs |-> IF d = 0 THEN walk(baseDir, 0) ELSE NoWalk]
    /\ outcome' = "running"
    /\ returnedLen' = 0
    /\ UNCHANGED <<helpers, tools, env, readFaults, hist, probe, verdict>>

\* find(pl, opts) from its first line to the first await inside walk(baseDir, 0)
StartCall(pl) ==
    /\ patterns' = pl
    /\ matchers' = BuildMatchers(pl)
    /\ ignoreNegMatchers' = BuildIgnoreNegMatchers(ignoreList)
    /\ ignoreMatchers' = BuildIgnoreMatchers(ignoreList)
    /\ results' = <<>>
    /\ walks' = [d \in Dirs |-> IF d = 0 THEN walk(baseDir, 0) ELSE NoWalk]
    /\ outcome' = "running"
    /\ returnedLen' = 0
    /\ UNCHANGED <<helpers, tools, env, readFaults, hist, probe, verdict>>

\* the caller calls find(patternList, opts)
FindStart ==
    /\ outcome = "idle"
    /\ StartCall(patternList)

\* `await opendir(dirPath)` settles
Open(d) ==
    /\ walks[d].st = "opening"
    /\ walks' = IF d \in unopenable
                THEN [walks EXCEPT ![d].st = CatchResult, ![d].err = "open"]
                ELSE [walks EXCEPT ![d].st = "reading", ![d].pos = 1]
    /\ UNCHANGED <<helpers, tools, env, patterns, matchers, ignoreMatchers, ignoreNegMatchers,
                   results, outcome, returnedLen, readFaults, hist, probe, verdict>>

\* the loop yields the next dirent and its body runs
ReadEntry(d) ==
    /\ walks[d].st = "reading"
    /\ walks[d].pos <= Len(Children(d))
    /\ LET w == walks[d]
           n == Children(d)[w.pos]
           dirent == tree[n]
           name == dirent.name
           fullPath == PathJoin(w.dirPath, name)
           relPath == PathRelative(baseDir, fullPath)
           relPathUnix == SplitJoin(relPath)
       IN  /\ results' = results \o Pushed(dirent, relPathUnix, relPath)
           /\ walks' = IF Descends(dirent, relPathUnix, w.currentDepth)
                       THEN [walks EXCEPT ![d].pos = @ + 1,
                                          ![d].promises = @ \cup {n},
                                          ![n] = walk(fullPath, w.currentDepth + 1)]
                       ELSE [walks EXCEPT ![d].pos = @ + 1]
    /\ UNCHANGED <<helpers, tools, env, patterns, matchers, ignoreMatchers, ignoreNegMatchers,
                   outcome, returnedLen, readFaults, hist, probe, verdict>>

\* reading the directory fails inside the loop: the catch block runs, the
\* promises pushed so far are not awaited
ReadFail(d) ==
    /\ walks[d].st = "reading"
    /\ readFaults < MaxReadFaults
    /\ readFaults' = readFaults + 1
    /\ walks' = [walks EXCEPT ![d].st = CatchResult, ![d].err = "read"]
    /\ UNCHANGED <<helpers, tools, env, patterns, matchers, ignoreMatchers, ignoreNegMatchers,
                   results, outcome, returnedLen, hist, probe, verdict>>

\* the loop has ended and `await Promise.all(promises)` settles
Join(d) ==
    /\ walks[d].st = "reading"
    /\ walks[d].pos > Len(Children(d))
    /\ JoinReady(d)
    /\ walks' = IF \E c \in walks[d].promises : walks[c].st = "threw"
                THEN [walks EXCEPT ![d].st = CatchResult]
                ELSE [walks EXCEPT ![d].st = "done"]
    /\ UNCHANGED <<helpers, tools, env, patterns, matchers, ignoreMatchers, ignoreNegMatchers,
                   results, outcome, returnedLen, readFaults, hist, probe, verdict>>

NoReadFault == \A d \in Dirs : walks[d].err # "read"

\* `await walk(baseDir, 0)` settles and find returns results
FindReturn ==
    /\ outcome = "running"
    /\ Settled(0)
    /\ outcome' = IF walks[0].st = "done" THEN "resolved" ELSE "rejected"
    /\ returnedLen' = Len(results)
    /\ hist' = IF walks[0].st = "done" /\ NoReadFault
               THEN hist \cup {[patterns |-> patterns, found |-> ToSet(results),
                                 again |-> \E h \in hist : h.patterns = patterns]}
               ELSE hist
    /\ UNCHANGED <<helpers, tools, env, patterns, matchers, ignoreMatchers, ignoreNegMatchers,
                   results, walks, readFaults, probe, verdict>>

\* the arguments the caller calls find with: its list, or one pattern of it
CallArgs == {patternList} \cup {<<patternList[i]>> : i \in 1..Len(patternList)}

\* the caller calls find again, once the earlier call has come to rest
FindAgain ==
    /\ outcome = "resolved"
    /\ Quiescent
    /\ \E pl \in CallArgs : StartCall(pl)

\* isIgnored(p) on the rules the call has built
AskIsIgnored(p) ==
    /\ outcome = "running"
    /\ probe' = p
    /\ verdict' = IF isIgnored(p) THEN "ignored" ELSE "kept"
    /\ UNCHANGED <<helpers, tools, env, patterns, matchers, ignoreMatchers, ignoreNegMatchers,
                   results, walks, outcome, returnedLen, readFaults, hist>>

\* matchers.some(matcher => matcher.test(p)) on the matchers the call has built
AskMatches(p) ==
    /\ outcome = "running"
    /\ probe' = p
    /\ verdict' = IF MatchesPatterns(p) THEN "matched" ELSE "unmatched"
    /\ UNCHANGED <<helpers, tools, env, patterns, matchers, ignoreMatchers, ignoreNegMatchers,
                   results, walks, outcome, returnedLen, readFaults, hist>>


-----------------------------------------------------------------------------
(* findFileUpwards(fileName, {cwd, maxDepth}).  The directories it can look *)
(* in form one chain: the root (level 0), its child (level 1) ... down to   *)
(* level MaxLevel; process.cwd() is the directory at level ProcLevel.  A    *)
(* path is [abs, n]: n segments below the root, or below process.cwd().     *)
(* upFs.dirs[l] is what lstat finds for fileName in the directory at level  *)
(* l, upFs.target what it finds for an absolute fileName.                   *)

\* the err.code values the catch block lets pass, and one it rethrows
SkippedCodes == {"ENOENT", "EACCES", "EPERM"}
LstatOutcomes == {"file", "dir", "EIO"} \cup SkippedCodes

AbsPath(n) == [abs |-> TRUE, n |-> n]
RelPath(n) == [abs |-> FALSE, n |-> n]

\* the directory a path names
LevelOf(path) == IF path.abs THEN path.n ELSE ProcLevel + path.n

\* path.dirname: "/" stays "/", "." stays ".", a one-segment relative path gives "."
dirname(path) == IF path.n = 0 THEN path ELSE [path EXCEPT !.n = @ - 1]

\* what the call returns
Null == [kind |-> "null", dir |-> AbsPath(0)]
NotReturned == [kind |-> "none", dir |-> AbsPath(0)]
FileNameItself == [kind |-> "fileName", dir |-> AbsPath(0)]
\* join(currentPath, fileName)
FilePath(currentPath) == [kind |-> "path", dir |-> currentPath]

NoUpFs == [dirs |-> [l \in 0..MaxLevel |-> "ENOENT"], target |-> "ENOENT"]

NoUp ==
    [pc |-> "idle", fileName |-> "rel", cwd |-> AbsPath(0), maxDepth |-> Infinity,
     currentPath |-> AbsPath(0), depth |-> 0, result |-> NotReturned, looked |-> {}]

\* while (depth <= maxDepth): into the body, up to `await lstat(filePath)`, or
\* past the loop to `return null`
WhileLoop(u) ==
    IF u.depth <= u.maxDepth
    THEN [u EXCEPT !.pc = "lstat"]
    ELSE [u EXCEPT !.pc = "returned", !.result = Null]

\* the call, up to its first await
UpCall ==
    /\ up.pc = "idle"
    /\ up' = IF up.fileName = "empty" THEN [up EXCEPT !.pc = "threw"]
             ELSE IF up.fileName = "abs" THEN [up EXCEPT !.pc = "lstatAbs"]
             ELSE WhileLoop([up EXCEPT !.currentPath = up.cwd, !.depth = 0])
    /\ UNCHANGED <<finder, tools, upFs, envFile, wr>>

\* path.isAbsolute(fileName): `await lstat(fileName)` settles
UpLstatAbs ==
    /\ up.pc = "lstatAbs"
    /\ up' = [up EXCEPT !.pc = "returned",
                        !.result = IF upFs.target = "file" THEN FileNameItself ELSE Null]
    /\ UNCHANGED <<finder, tools, upFs, envFile, wr>>

\* `await lstat(filePath)` settles: the rest of the loop body and the next test
UpLstat ==
    /\ up.pc = "lstat"
    /\ LET found == upFs.dirs[LevelOf(up.currentPath)]
           u == [up EXCEPT !.looked = @ \cup {LevelOf(up.currentPath)}]
           parentPath == dirname(up.currentPath)
       IN  up' = IF found = "file"
                 THEN [u EXCEPT !.pc = "returned", !.result = FilePath(up.currentPath)]
                 ELSE IF found # "dir" /\ found \notin SkippedCodes
                 THEN [u EXCEPT !.pc = "threw"]
                 ELSE IF parentPath = up.currentPath
                 THEN [u EXCEPT !.pc = "returned", !.result = Null]
                 ELSE WhileLoop([u EXCEPT !.currentPath = parentPath, !.depth = @ + 1])
    /\ UNCHANGED <<finder, tools, upFs, envFile, wr>>

-----------------------------------------------------------------------------
(* parseEnv(source, returnEmptyAsNull = false), as writeEnvVar uses it.     *)

Digits == {"0", "1", "2", "3", "4", "5", "6", "7", "8", "9"}

Letters ==
    {"a", "b", "c", "d", "e", "f", "g", "h", "i", "j", "k", "l", "m", "n", "o", "p",
     "q", "r", "s", "t", "u", "v", "w", "x", "y", "z", "A", "B", "C", "D", "E", "F",
     "G", "H", "I", "J", "K", "L", "M", "N", "O", "P", "Q", "R", "S", "T", "U", "V",
     "W", "X", "Y", "Z"}

\* [\w.@$:-]
KeyChars == Letters \cup Digits \cup {"_", ".", "@", "$", ":", "-"}

\* \s, as far as the texts here go
IsSpace(c) == c \in Whitespace \cup {"\f"}

\* source.replace(/\r\n?/g, '\n')
RECURSIVE NormalizeLineEndings(_)
NormalizeLineEndings(t) ==
    IF Len(t) = 0 THEN <<>>
    ELSE IF t[1] = "\r"
         THEN IF Len(t) >= 2 /\ t[2] = "\n"
              THEN <<"\n">> \o NormalizeLineEndings(SubSeq(t, 3, Len(t)))
              ELSE <<"\n">> \o NormalizeLineEndings(Tail(t))
         ELSE <<t[1]>> \o NormalizeLineEndings(Tail(t))

\* a greedy \s* from position i: the first position at or after i that holds
\* no white space (Len(t) + 1 when there is none)
RECURSIVE SkipSpace(_, _)
SkipSpace(t, i) ==
    IF i <= Len(t) /\ IsSpace(t[i]) THEN SkipSpace(t, i + 1) ELSE i

\* a greedy [\w.@$:-]* from position i
RECURSIVE SkipKey(_, _)
SkipKey(t, i) ==
    IF i <= Len(t) /\ t[i] \in KeyChars THEN SkipKey(t, i + 1) ELSE i

\* a greedy .* from position i: up to the next line terminator
RECURSIVE SkipLine(_, _)
SkipLine(t, i) ==
    IF i <= Len(t) /\ t[i] \notin LineTerminators THEN SkipLine(t, i + 1) ELSE i

\* ^ with the m flag holds at position i
AtLineStart(t, i) == i = 1 \/ t[i - 1] \in LineTerminators

\* $ with the m flag holds at position i
AtLineEnd(t, i) == i = Len(t) + 1 \/ t[i] \in LineTerminators

\* (?:export\s+)? taken at position i: the position after it, 0 when the
\* group cannot match there
AfterExport(t, i) ==
    IF /\ i + 6 <= Len(t)
       /\ SubSeq(t, i, i + 5) = <<"e", "x", "p", "o", "r", "t">>
       /\ IsSpace(t[i + 6])
    THEN SkipSpace(t, i + 6)
    ELSE 0

\* ([\w.@$:-]+)\s*=\s*(.*)?\s*$ from position k: the key, the text captured
\* as value and the position the match ends at; ok = FALSE when it fails
KeyValueAt(t, k) ==
    LET keyEnd == SkipKey(t, k)
        eq == SkipSpace(t, keyEnd)
        valueStart == SkipSpace(t, eq + 1)
        valueEnd == SkipLine(t, valueStart)
        spaceEnd == SkipSpace(t, valueEnd)
        ends == {q \in valueEnd..spaceEnd : AtLineEnd(t, q)}
    IN  IF keyEnd > k /\ eq <= Len(t) /\ t[eq] = "="
        THEN [ok |-> TRUE,
              key |-> SubSeq(t, k, keyEnd - 1),
              value |-> SubSeq(t, valueStart, valueEnd - 1),
              end |-> CHOOSE q \in ends : \A r \in ends : r <= q]
        ELSE [ok |-> FALSE, key |-> <<>>, value |-> <<>>, end |-> 0]

\* the whole of LINE tried at the line start i: with the export group first,
\* then without it
LineAt(t, i) ==
    LET k == SkipSpace(t, i)
        e == AfterExport(t, k)
    IN  IF e > 0 /\ KeyValueAt(t, e).ok THEN KeyValueAt(t, e) ELSE KeyValueAt(t, k)

\* value.split(/(?<!\\)#/)[0]: up to the first # that no backslash precedes
BeforeComment(v) ==
    LET marks == {i \in 1..Len(v) : v[i] = "#" /\ (i = 1 \/ v[i - 1] # "\\")}
    IN  IF marks = {} THEN v
        ELSE SubSeq(v, 1, (CHOOSE i \in marks : \A j \in marks : i <= j) - 1)

\* the three quote characters ("BT" stands for the backtick)
Quotes == {"\"", "'", "BT"}

\* value.slice(1, -1) when the value starts and ends with the same quote
Unquote(v) ==
    IF Len(v) >= 1 /\ v[1] \in Quotes /\ v[Len(v)] = v[1]
    THEN SubSeq(v, 2, Len(v) - 1)
    ELSE v

\* value.replace(/\\c/g, r): a backslash followed by c becomes r
RECURSIVE ReplaceEscape(_, _, _)
ReplaceEscape(v, c, r) ==
    IF Len(v) = 0 THEN <<>>
    ELSE IF Len(v) >= 2 /\ v[1] = "\\" /\ v[2] = c
         THEN <<r>> \o ReplaceEscape(SubSeq(v, 3, Len(v)), c, r)
         ELSE <<v[1]>> \o ReplaceEscape(Tail(v), c, r)

\* the six replacements in order ("BS" stands for the backspace character)
Unescape(v) ==
    ReplaceEscape(ReplaceEscape(ReplaceEscape(ReplaceEscape(ReplaceEscape(ReplaceEscape(
        v, "n", "\n"), "r", "\r"), "t", "\t"), "b", "BS"), "f", "\f"), "\\", "\\")

\* the body of the while loop, from match[2] to the text handed to convertType
ValueText(captured) ==
    LET value == Trim(captured)
        cut == IF Len(value) >= 1 /\ value[1] \in Quotes
               THEN value ELSE Trim(BeforeComment(value))
    IN  Unescape(Unquote(cut))

\* the while loop over LINE.exec(lines): the [key, value] pairs in the order
\* they are assigned to obj, the search resuming at position from
RECURSIVE ExecAll(_, _)
ExecAll(t, from) ==
    LET starts == {i \in from..Len(t) : AtLineStart(t, i) /\ LineAt(t, i).ok}
    IN  IF starts = {} THEN <<>>
        ELSE LET i == CHOOSE i \in starts : \A j \in starts : i <= j
                 m == LineAt(t, i)
             IN  <<[key |-> Trim(m.key), value |-> ValueText(m.value)]>>
                 \o ExecAll(t, m.end)

parseEnv(source) == ExecAll(NormalizeLineEndings(source), 1)

\* parsedEnv[key]?.toString().trim() !== "".  convertType(value, false) gives a
\* number, a boolean or null only for a text that is not blank, and each of
\* them, like a key that is not in parsedEnv, makes the comparison true; any
\* other text it returns unchanged.
ValueIsNotEmpty(parsedEnv, key) ==
    LET hits == {i \in 1..Len(parsedEnv) : parsedEnv[i].key = key}
    IN  IF hits = {} THEN TRUE
        ELSE Trim(parsedEnv[CHOOSE i \in hits : \A j \in hits : j <= i].value) # <<>>

-----------------------------------------------------------------------------
(* writeEnvVar(envPath, key, value, onlyIfEmpty).  envFile is the file at   *)
(* envPath: whether it exists, whether it (or, when it is missing, its      *)
(* directory) can be written, and its text.                                  *)

MaxWrites == 2          \* calls of writeEnvVar in one run

\* line.indexOf("="), counted from 1: 0 when there is none
IndexOfEq(line) ==
    LET eqs == {i \in 1..Len(line) : line[i] = "="}
    IN  IF eqs = {} THEN 0 ELSE CHOOSE i \in eqs : \A j \in eqs : i <= j

\* (variant: the text before "=" compared as it stands)
CurrentKeyUntrimmed(line) == SubSeq(line, 1, IndexOfEq(line) - 1)

\* line.substring(0, eqIndex).trim()
CurrentKey(line) == Trim(SubSeq(line, 1, IndexOfEq(line) - 1))

\* (variant: every assignment taken for the key's line)
IsKeyLineAny(line, key) ==
    /\ Trim(line) # <<>>
    /\ ~StartsWith(Trim(line), "#")
    /\ IndexOfEq(line) # 0

\* the callback of lines.map reaches `found = true` for this line
IsKeyLine(line, key) ==
    /\ Trim(line) # <<>>
    /\ ~StartsWith(Trim(line), "#")
    /\ IndexOfEq(line) # 0
    /\ CurrentKey(line) = key

\* `${key}="${value}"`
Assignment(key, value) == key \o <<"=", "\"">> \o value \o <<"\"">>

\* (variant: onlyIfEmpty not consulted)
KeepsLineNever(parsedEnv, key, onlyIfEmpty) == FALSE

\* onlyIfEmpty && parsedEnv[key]?.toString().trim() !== ""
KeepsLine(parsedEnv, key, onlyIfEmpty) ==
    onlyIfEmpty /\ ValueIsNotEmpty(parsedEnv, key)

\* lines.map(...), then the push when the key was not found
UpdatedLines(lines, key, value, onlyIfEmpty, parsedEnv) ==
    LET mapped == [i \in 1..Len(lines) |->
                      IF IsKeyLine(lines[i], key) /\ ~KeepsLine(parsedEnv, key, onlyIfEmpty)
                      THEN Assignment(key, value)
                      ELSE lines[i]]
        found == \E i \in 1..Len(lines) : IsKeyLine(lines[i], key)
    IN  IF found THEN mapped ELSE Append(mapped, Assignment(key, value))

\* updatedLines.join("\n")
RECURSIVE JoinLines(_)
JoinLines(lines) ==
    IF Len(lines) = 0 THEN <<>>
    ELSE IF Len(lines) = 1 THEN lines[1]
    ELSE lines[1] \o <<"\n">> \o JoinLines(Tail(lines))

NoEnvFile == [exists |-> FALSE, writable |-> TRUE, content |-> <<>>]

\* pc: "idle" | "ensureFile" | "readFile" | "writeFile" | "done"; status: what
\* the last call came to: "none" | "written" | "failed"
NoWr ==
    [pc |-> "idle", key |-> <<>>, value |-> <<>>, onlyIfEmpty |-> FALSE,
     envContent |-> <<>>, status |-> "none", calls |-> 0]

\* the call, up to `await ensureFile(filePath)`
WrCall(key, value, onlyIfEmpty) ==
    /\ wr.pc \in {"idle", "done"}
    /\ wr.calls < MaxWrites
    /\ wr' = [wr EXCEPT !.pc = "ensureFile", !.key = key, !.value = value,
                        !.onlyIfEmpty = onlyIfEmpty, !.envContent = <<>>,
                        !.status = "none", !.calls = @ + 1]
    /\ UNCHANGED <<finder, tools, upFs, up, envFile>>

\* ensureFile: open(filePath, "a") creates a missing file; its errors are ignored
WrEnsureFile ==
    /\ wr.pc = "ensureFile"
    /\ envFile' = IF ~envFile.exists /\ envFile.writable
                  THEN [envFile EXCEPT !.exists = TRUE, !.content = <<>>]
                  ELSE envFile
    /\ wr' = [wr EXCEPT !.pc = "readFile"]
    /\ UNCHANGED <<finder, tools, upFs, up>>

\* `await readFile(filePath, "utf8")` settles: envContent stays "" when it fails
WrReadFile ==
    /\ wr.pc = "readFile"
    /\ wr' = [wr EXCEPT !.pc = "writeFile",
                        !.envContent = IF envFile.exists THEN envFile.content ELSE <<>>]
    /\ UNCHANGED <<finder, tools, upFs, up, envFile>>

\* the lines are updated and `await writeFile(...)` settles; when it fails the
\* outer catch logs the error
WrWriteFile ==
    /\ wr.pc = "writeFile"
    /\ LET parsedEnv == parseEnv(wr.envContent)
           lines == SplitLines(wr.envContent, <<>>)
           updatedLines == UpdatedLines(lines, wr.key, wr.value, wr.onlyIfEmpty, parsedEnv)
       IN  IF envFile.writable
           THEN /\ envFile' = [envFile EXCEPT !.exists = TRUE,
                                              !.content = JoinLines(updatedLines)]
                /\ wr' = [wr EXCEPT !.pc = "done", !.status = "written"]
           ELSE /\ envFile' = envFile
                /\ wr' = [wr EXCEPT !.pc = "done", !.status = "failed"]
    /\ UNCHANGED <<finder, tools, upFs, up>>

-----------------------------------------------------------------------------
(* JSON texts and values, as far as the files here go: null, true, false,   *)
(* integers, strings without escapes, arrays and objects.  A value is a     *)
(* record tagged by t; an object is the sequence of its [key, value] pairs. *)

MaxUpdates == 2         \* calls of updateJson in one run

JsonNull == [t |-> "null"]
JsonBool(b) == [t |-> "bool", b |-> b]
JsonNum(n) == [t |-> "num", n |-> n]
JsonStr(s) == [t |-> "str", s |-> s]
JsonArr(items) == [t |-> "arr", items |-> items]
JsonObj(pairs) == [t |-> "obj", pairs |-> pairs]
Undefined == [t |-> "undefined"]

JsonPunctuation == {"[", "]", "{", "}", ",", ":"}

DigitSeq == <<"0", "1", "2", "3", "4", "5", "6", "7", "8", "9">>

DigitOf(c) == (CHOOSE d \in 1..10 : DigitSeq[d] = c) - 1

\* the end of the token that starts at i: a string runs to its closing quote
\* (0 when there is none), a word to the next white space, punctuation or quote
RECURSIVE StringEnd(_, _)
StringEnd(t, j) ==
    IF j > Len(t) THEN 0 ELSE IF t[j] = "\"" THEN j ELSE StringEnd(t, j + 1)

RECURSIVE WordEnd(_, _)
WordEnd(t, j) ==
    IF j <= Len(t) /\ t[j] \notin Whitespace \cup JsonPunctuation \cup {"\""}
    THEN WordEnd(t, j + 1) ELSE j - 1

\* the tokens of a JSON text from position i on
RECURSIVE Tokens(_, _)
Tokens(t, i) ==
    IF i > Len(t) THEN <<>>
    ELSE IF t[i] \in Whitespace THEN Tokens(t, i + 1)
    ELSE IF t[i] \in JsonPunctuation THEN <<[k |-> "punct", s |-> <<t[i]>>]>> \o Tokens(t, i + 1)
    ELSE IF t[i] = "\""
         THEN LET e == StringEnd(t, i + 1)
              IN  IF e = 0 THEN <<[k |-> "bad", s |-> <<>>]>>
                  ELSE <<[k |-> "str", s |-> SubSeq(t, i + 1, e - 1)]>> \o Tokens(t, e + 1)
    ELSE LET e == WordEnd(t, i)
         IN  <<[k |-> "word", s |-> SubSeq(t, i, e)]>> \o Tokens(t, e + 1)

\* digits, most significant first, as a number
RECURSIVE DigitsValue(_)
DigitsValue(w) ==
    IF Len(w) = 0 THEN 0
    ELSE DigitsValue(SubSeq(w, 1, Len(w) - 1)) * 10 + DigitOf(w[Len(w)])

\* 0 | [1-9][0-9]*
IsJsonInt(w) ==
    /\ Len(w) >= 1
    /\ \A i \in 1..Len(w) : w[i] \in Digits
    /\ Len(w) > 1 => w[1] # "0"

Failed == [ok |-> FALSE, value |-> JsonNull, next |-> 0]

Parsed(value, next) == [ok |-> TRUE, value |-> value, next |-> next]

IsPunct(toks, i, c) == i <= Len(toks) /\ toks[i].k = "punct" /\ toks[i].s = <<c>>

ParseWord(w, next) ==
    IF w = <<"n", "u", "l", "l">> THEN Parsed(JsonNull, next)
    ELSE IF w = <<"t", "r", "u", "e">> THEN Parsed(JsonBool(TRUE), next)
    ELSE IF w = <<"f", "a", "l", "s", "e">> THEN Parsed(JsonBool(FALSE), next)
    ELSE IF IsJsonInt(w) THEN Parsed(JsonNum(DigitsValue(w)), next)
    ELSE IF Len(w) >= 2 /\ w[1] = "-" /\ IsJsonInt(Tail(w))
         THEN Parsed(JsonNum(0 - DigitsValue(Tail(w))), next)
    ELSE Failed

\* the value that starts at token i; the elements of an array after "[" or
\* ","; the members of an object after "{" or ","
RECURSIVE ParseValue(_, _), ParseElements(_, _, _), ParseMembers(_, _, _)
ParseValue(toks, i) ==
    IF i > Len(toks) THEN Failed
    ELSE IF toks[i].k = "str" THEN Parsed(JsonStr(toks[i].s), i + 1)
    ELSE IF toks[i].k = "word" THEN ParseWord(toks[i].s, i + 1)
    ELSE IF IsPunct(toks, i, "[")
         THEN IF IsPunct(toks, i + 1, "]") THEN Parsed(JsonArr(<<>>), i + 2)
              ELSE ParseElements(toks, i + 1, <<>>)
    ELSE IF IsPunct(toks, i, "{")
         THEN IF IsPunct(toks, i + 1, "}") THEN Parsed(JsonObj(<<>>), i + 2)
              ELSE ParseMembers(toks, i + 1, <<>>)
    ELSE Failed

ParseElements(toks, i, items) ==
    LET item == ParseValue(toks, i)
    IN  IF ~item.ok THEN Failed
        ELSE IF IsPunct(toks, item.next, ",")
             THEN ParseElements(toks, item.next + 1, Append(items, item.value))
        ELSE IF IsPunct(toks, item.next, "]")
             THEN Parsed(JsonArr(Append(items, item.value)), item.next + 1)
        ELSE Failed

ParseMembers(toks, i, pairs) ==
    IF ~(i + 1 <= Len(toks) /\ toks[i].k = "str" /\ IsPunct(toks, i + 1, ":")) THEN Failed
    ELSE LET member == ParseValue(toks, i + 2)
             pair == [key |-> toks[i].s, value |-> member.value]
         IN  IF ~member.ok THEN Failed
             ELSE IF IsPunct(toks, member.next, ",")
                  THEN ParseMembers(toks, member.next + 1, Append(pairs, pair))
             ELSE IF IsPunct(toks, member.next, "}")
                  THEN Parsed(JsonObj(Append(pairs, pair)), member.next + 1)
             ELSE Failed

\* JSON.parse(data): ok = FALSE where it throws SyntaxError
JsonParse(data) ==
    LET toks == Tokens(data, 1)
        r == ParseValue(toks, 1)
    IN  IF r.ok /\ r.next = Len(toks) + 1 THEN r ELSE Failed

\* a number in decimal digits
RECURSIVE NatText(_)
NatText(n) ==
    IF n < 10 THEN <<DigitSeq[n + 1]>>
    ELSE NatText(n \div 10) \o <<DigitSeq[(n % 10) + 1]>>

IndentUnit == 2         \* JSON.stringify(data, null, 2)

RECURSIVE Indent(_)
Indent(n) == IF n = 0 THEN <<>> ELSE <<" ">> \o Indent(n - 1)

\* JSON.stringify(value, null, 2) of a value nested level deep
RECURSIVE Stringify(_, _), StringifyItems(_, _), StringifyPairs(_, _)
Stringify(value, level) ==
    IF value.t = "null" THEN <<"n", "u", "l", "l">>
    ELSE IF value.t = "bool"
         THEN IF value.b THEN <<"t", "r", "u", "e">> ELSE <<"f", "a", "l", "s", "e">>
    ELSE IF value.t = "num"
         THEN IF value.n < 0 THEN <<"-">> \o NatText(0 - value.n) ELSE NatText(value.n)
    ELSE IF value.t = "str" THEN <<"\"">> \o value.s \o <<"\"">>
    ELSE IF value.t = "arr"
         THEN IF value.items = <<>> THEN <<"[", "]">>
              ELSE <<"[", "\n">> \o StringifyItems(value.items, level + 1)
                   \o <<"\n">> \o Indent(IndentUnit * level) \o <<"]">>
    ELSE IF value.pairs = <<>> THEN <<"{", "}">>
         ELSE <<"{", "\n">> \o StringifyPairs(value.pairs, level + 1)
              \o <<"\n">> \o Indent(IndentUnit * level) \o <<"}">>

StringifyItems(items, level) ==
    Indent(IndentUnit * level) \o Stringify(items[1], level)
    \o (IF Len(items) = 1 THEN <<>>
        ELSE <<",", "\n">> \o StringifyItems(Tail(items), level))

StringifyPairs(pairs, level) ==
    Indent(IndentUnit * level) \o <<"\"">> \o pairs[1].key \o <<"\"", ":", " ">>
    \o Stringify(pairs[1].value, level)
    \o (IF Len(pairs) = 1 THEN <<>>
        ELSE <<",", "\n">> \o StringifyPairs(Tail(pairs), level))

\* !data
Falsy(data) ==
    \/ data.t = "null"
    \/ data.t = "bool" /\ ~data.b
    \/ data.t = "num" /\ data.n = 0
    \/ data.t = "str" /\ data.s = <<>>

-----------------------------------------------------------------------------
(* readJson, writeJson and updateJson(filePath, updater).  jsonFile is the  *)
(* file at filePath: whether it exists, whether it can be written, its text. *)

NoJsonFile == [exists |-> FALSE, writable |-> TRUE, content |-> <<>>]

\* pc: "idle" | "readJson" | "updater" | "writeJson" | "done"; status: "none" |
\* "resolved" | "rejected"; read: what readFile gave (found = FALSE when it
\* threw); data: what readJson returned; called: the updater was called
NoUj ==
    [pc |-> "idle", read |-> [found |-> FALSE, data |-> <<>>], data |-> JsonNull,
     called |-> FALSE, updated |-> JsonNull, status |-> "none", calls |-> 0]

\* readJson(filePath): null when readFile or JSON.parse throws
readJson(file) ==
    IF file.exists /\ JsonParse(file.content).ok
    THEN JsonParse(file.content).value
    ELSE JsonNull

\* if (!data) return
ReturnsEarly(data) == Falsy(data)

\* what an updater may return
UpdaterResults ==
    { JsonObj(<<[key |-> <<"a">>, value |-> JsonNum(1)]>>),
      JsonObj(<<[key |-> <<"a">>, value |-> JsonArr(<<JsonNum(10), JsonStr(<<"b">>)>>)],
                [key |-> <<"c">>, value |-> JsonBool(TRUE)]>>),
      JsonArr(<<>>),
      JsonNum(0),
      Undefined }

UjCall ==
    /\ uj.pc \in {"idle", "done"}
    /\ uj.calls < MaxUpdates
    /\ uj' = [NoUj EXCEPT !.pc = "readJson", !.calls = uj.calls + 1]
    /\ UNCHANGED <<finder, helpers, jsonFile, moveVars, linkVars, listVars, ue>>

\* `await readJson(filePath)` settles, then `if (!data) return`
UjReadJson ==
    /\ uj.pc = "readJson"
    /\ LET data == readJson(jsonFile)
       IN  uj' = [uj EXCEPT
                     !.read = [found |-> jsonFile.exists,
                               data |-> IF jsonFile.exists THEN jsonFile.content ELSE <<>>],
                     !.data = data,
                     !.pc = IF ReturnsEarly(data) THEN "done" ELSE "updater",
                     !.status = IF ReturnsEarly(data) THEN "resolved" ELSE "none"]
    /\ UNCHANGED <<finder, helpers, jsonFile, moveVars, linkVars, listVars, ue>>

\* `await updater(data)` settles: with a value, or the updater throws
UjUpdater ==
    /\ uj.pc = "updater"
    /\ \/ \E updated \in UpdaterResults :
             uj' = [uj EXCEPT !.called = TRUE, !.updated = updated, !.pc = "writeJson"]
       \/ uj' = [uj EXCEPT !.called = TRUE, !.pc = "done", !.status = "rejected"]
    /\ UNCHANGED <<finder, helpers, jsonFile, moveVars, linkVars, listVars, ue>>

\* writeJson(filePath, updated): JSON.stringify(undefined) is undefined, which
\* writeFile rejects before it opens the file
UjWriteJson ==
    /\ uj.pc = "writeJson"
    /\ IF uj.updated # Undefined /\ jsonFile.writable
       THEN /\ jsonFile' = [jsonFile EXCEPT !.exists = TRUE,
                                            !.content = Stringify(uj.updated, 0)]
            /\ uj' = [uj EXCEPT !.pc = "done", !.status = "resolved"]
       ELSE /\ jsonFile' = jsonFile
            /\ uj' = [uj EXCEPT !.pc = "done", !.status = "rejected"]
    /\ UNCHANGED <<finder, helpers, moveVars, linkVars, listVars, ue>>

-----------------------------------------------------------------------------
(* move(src, dest, overwrite).  What is at a path is a node: nothing, a     *)
(* file with its data, or a directory with the entries below it, each given *)
(* by its path relative to the directory.  mvFs holds the nodes at src and  *)
(* at dest and what the environment does to the calls: fault is the error   *)
(* rename meets when src exists ("none" when it meets none), copyFails,     *)
(* srcLocked and destLocked make cp, rm(src) and rm(dest) fail.             *)

MaxMoves == 2           \* calls of move in one run

Nothing == [kind |-> "none", data |-> 0, entries |-> {}]
FileNode(data) == [kind |-> "file", data |-> data, entries |-> {}]
DirNode(entries) == [kind |-> "dir", data |-> 0, entries |-> entries]
FileAt(path, data) == [path |-> path, kind |-> "file", data |-> data]
DirAt(path) == [path |-> path, kind |-> "dir", data |-> 0]

\* the paths at which the two directories hold entries of different kinds
Clashes(from, to) ==
    {e.path : e \in {e \in from.entries :
                        \E f \in to.entries : f.path = e.path /\ f.kind # e.kind}}

\* (variant: only the entries directly inside src are copied)
CopiedEntriesShallow(from) == {e \in from.entries : Len(e.path) = 1}

\* the entries cp(src, dest, {recursive: true}) copies from a directory
CopiedEntries(from) == from.entries

\* a directory copied into a directory: the entries of src are written over
\* what dest holds at the same paths, the rest of dest stays
Merged(from, to) ==
    DirNode(CopiedEntries(from) \cup
            {f \in to.entries : \A e \in CopiedEntries(from) : e.path # f.path})

\* cp(src, dest, {recursive: true}): ok = FALSE where it rejects (src
\* missing, a directory onto a file, a file onto a directory, an entry onto
\* one of the other kind)
cp(from, to) ==
    IF from.kind = "none" THEN [ok |-> FALSE, node |-> to]
    ELSE IF from.kind = "file"
         THEN IF to.kind = "dir" THEN [ok |-> FALSE, node |-> to]
              ELSE [ok |-> TRUE, node |-> from]
    ELSE IF to.kind = "file" THEN [ok |-> FALSE, node |-> to]
    ELSE IF to.kind = "none" THEN [ok |-> TRUE, node |-> DirNode(CopiedEntries(from))]
    ELSE IF Clashes(from, to) # {} THEN [ok |-> FALSE, node |-> to]
    ELSE [ok |-> TRUE, node |-> Merged(from, to)]

\* rename(src, dest): the error code it fails with, "none" when it succeeds
RenameError(fs) ==
    IF fs.src.kind = "none" THEN "ENOENT"
    ELSE IF fs.fault # "none" THEN fs.fault
    ELSE IF fs.src.kind = "dir" /\ fs.dest.kind = "file" THEN "ENOTDIR"
    ELSE IF fs.src.kind = "file" /\ fs.dest.kind = "dir" THEN "EISDIR"
    ELSE IF fs.src.kind = "dir" /\ fs.dest.kind = "dir" /\ fs.dest.entries # {} THEN "ENOTEMPTY"
    ELSE "none"

NoMvFs ==
    [src |-> Nothing, dest |-> Nothing, fault |-> "none", copyFails |-> FALSE,
     srcLocked |-> FALSE, destLocked |-> FALSE]

\* pc: "idle" | "pathExists" | "remove" | "rename" | "cp" | "rm" | "done";
\* status: "none" | "resolved" | "rejected"; error: the code the call rejected
\* with; renameError: what rename failed with ("none": it succeeded, "untried":
\* it was not called); removed: remove(dest) was called and succeeded; given:
\* the node at src when the call was made
NoMv ==
    [pc |-> "idle", overwrite |-> FALSE, status |-> "none", error |-> "none",
     renameError |-> "untried", removed |-> FALSE, given |-> Nothing, calls |-> 0]

MvCall(overwrite) ==
    /\ mv.pc \in {"idle", "done"}
    /\ mv.calls < MaxMoves
    /\ mv' = [NoMv EXCEPT !.pc = IF overwrite THEN "pathExists" ELSE "rename",
                          !.overwrite = overwrite, !.given = mvFs.src,
                          !.calls = mv.calls + 1]
    /\ UNCHANGED <<finder, helpers, jsonVars, mvFs, linkVars, listVars, ue>>

\* overwrite && (await pathExists(dest))
MvPathExists ==
    /\ mv.pc = "pathExists"
    /\ mv' = [mv EXCEPT !.pc = IF mvFs.dest.kind # "none" THEN "remove" ELSE "rename"]
    /\ UNCHANGED <<finder, helpers, jsonVars, mvFs, linkVars, listVars, ue>>

\* (variant: dest is left where it is)
MvRemoveSkipped ==
    /\ mv.pc = "remove"
    /\ mv' = [mv EXCEPT !.pc = "rename", !.removed = TRUE]
    /\ UNCHANGED <<finder, helpers, jsonVars, mvFs, linkVars, listVars, ue>>

\* await remove(dest): an error is not EXDEV and is rethrown
MvRemove ==
    /\ mv.pc = "remove"
    /\ IF mvFs.destLocked
       THEN /\ mv' = [mv EXCEPT !.pc = "done", !.status = "rejected", !.error = "EACCES"]
            /\ mvFs' = mvFs
       ELSE /\ mv' = [mv EXCEPT !.pc = "rename", !.removed = TRUE]
            /\ mvFs' = [mvFs EXCEPT !.dest = Nothing]
    /\ UNCHANGED <<finder, helpers, jsonVars, linkVars, listVars, ue>>

\* await rename(src, dest), and the catch
MvRename ==
    /\ mv.pc = "rename"
    /\ LET code == RenameError(mvFs)
       IN  IF code = "none"
           THEN /\ mvFs' = [mvFs EXCEPT !.dest = mvFs.src, !.src = Nothing]
                /\ mv' = [mv EXCEPT !.pc = "done", !.status = "resolved",
                                    !.renameError = "none"]
           ELSE /\ mvFs' = mvFs
                /\ mv' = IF code = "EXDEV"
                         THEN [mv EXCEPT !.pc = "cp", !.renameError = code]
                         ELSE [mv EXCEPT !.pc = "done", !.status = "rejected",
                                         !.error = code, !.renameError = code]
    /\ UNCHANGED <<finder, helpers, jsonVars, linkVars, listVars, ue>>

\* await ensureDir(dirname(dest)); await cp(src, dest, { recursive: true })
MvCp ==
    /\ mv.pc = "cp"
    /\ LET copied == cp(mvFs.src, mvFs.dest)
       IN  IF copied.ok /\ ~mvFs.copyFails
           THEN /\ mvFs' = [mvFs EXCEPT !.dest = copied.node]
                /\ mv' = [mv EXCEPT !.pc = "rm"]
           ELSE /\ mvFs' = mvFs
                /\ mv' = [mv EXCEPT !.pc = "done", !.status = "rejected",
                                    !.error = "cp"]
    /\ UNCHANGED <<finder, helpers, jsonVars, linkVars, listVars, ue>>

\* await rm(src, { recursive: true, force: true }); return
MvRm ==
    /\ mv.pc = "rm"
    /\ IF mvFs.srcLocked
       THEN /\ mvFs' = mvFs
            /\ mv' = [mv EXCEPT !.pc = "done", !.status = "rejected", !.error = "EACCES"]
       ELSE /\ mvFs' = [mvFs EXCEPT !.src = Nothing]
            /\ mv' = [mv EXCEPT !.pc = "done", !.status = "resolved"]
    /\ UNCHANGED <<finder, helpers, jsonVars, linkVars, listVars, ue>>

-----------------------------------------------------------------------------
(* ensureSymlink(src, dest).  slFs holds what is at dest (kind "none",      *)
(* "file", "dir" or "link", and for a link the path it points to) and what  *)
(* the environment does to the calls: lstatFault is the error lstat meets   *)
(* when dest exists ("none" when it meets none), symlinkFails makes symlink *)
(* fail.                                                                     *)

MaxLinks == 2           \* calls of ensureSymlink in one run

NoTarget == "-"

Absent == [kind |-> "none", target |-> NoTarget]
PlainFile == [kind |-> "file", target |-> NoTarget]
Directory == [kind |-> "dir", target |-> NoTarget]
LinkTo(target) == [kind |-> "link", target |-> target]

NoSlFs == [dest |-> Absent, lstatFault |-> "none", symlinkFails |-> FALSE]

\* pc: "idle" | "lstat" | "unlink" | "symlink" | "done"; status: "none" |
\* "resolved" | "rejected"; was: what was at dest when the call was made
NoSl ==
    [pc |-> "idle", src |-> NoTarget, status |-> "none", error |-> "none",
     was |-> Absent, calls |-> 0]

SlCall(src) ==
    /\ sl.pc \in {"idle", "done"}
    /\ sl.calls < MaxLinks
    /\ sl' = [NoSl EXCEPT !.pc = "lstat", !.src = src, !.was = slFs.dest,
                          !.calls = sl.calls + 1]
    /\ UNCHANGED <<finder, helpers, jsonVars, moveVars, slFs, listVars, ue>>

\* `await lstat(dest)` settles, then `if (!stats.isSymbolicLink())`, or the
\* catch
SlLstat ==
    /\ sl.pc = "lstat"
    /\ sl' = IF slFs.dest.kind = "none" THEN [sl EXCEPT !.pc = "symlink"]
             ELSE IF slFs.lstatFault # "none"
                  THEN [sl EXCEPT !.pc = "done", !.status = "rejected",
                                  !.error = slFs.lstatFault]
             ELSE IF slFs.dest.kind = "link"
                  THEN [sl EXCEPT !.pc = "done", !.status = "resolved"]
             ELSE [sl EXCEPT !.pc = "unlink"]
    /\ UNCHANGED <<finder, helpers, jsonVars, moveVars, slFs, listVars, ue>>

\* `await unlink(dest)`: it fails on a directory, and the catch rethrows
SlUnlink ==
    /\ sl.pc = "unlink"
    /\ IF slFs.dest.kind = "dir"
       THEN /\ slFs' = slFs
            /\ sl' = [sl EXCEPT !.pc = "done", !.status = "rejected", !.error = "EISDIR"]
       ELSE /\ slFs' = [slFs EXCEPT !.dest = Absent]
            /\ sl' = [sl EXCEPT !.pc = "symlink"]
    /\ UNCHANGED <<finder, helpers, jsonVars, moveVars, listVars, ue>>

\* `await symlink(src, dest, type)`, in the try block or in the catch
SlSymlink ==
    /\ sl.pc = "symlink"
    /\ IF slFs.symlinkFails
       THEN /\ slFs' = slFs
            /\ sl' = [sl EXCEPT !.pc = "done", !.status = "rejected", !.error = "EPERM"]
       ELSE /\ slFs' = [slFs EXCEPT !.dest = LinkTo(sl.src)]
            /\ sl' = [sl EXCEPT !.pc = "done", !.status = "resolved"]
    /\ UNCHANGED <<finder, helpers, jsonVars, moveVars, listVars, ue>>

-----------------------------------------------------------------------------
(* listFiles(dirPath), called on the base directory of the tree.  lfFs      *)
(* gives, for each directory, how readdir fares: "ok" or an error code.     *)
(* lf holds one activation of listFiles per directory:                      *)
(*   st       "none"      not called                                        *)
(*            "readdir"   awaiting readdir(dirPath, { withFileTypes })      *)
(*            "waiting"   awaiting Promise.all over its entries             *)
(*            "returned"  resolved with result                              *)
(*            "thrown"    rejected                                          *)

ReaddirOutcomes == {"ok", "EIO"} \cup SkippedCodes

NoLf == [st |-> "none", dirPath |-> <<>>, result |-> <<>>]

\* entry.isDirectory()
IsDirectory(dirent) == dirent.kind = "dir"

\* filePaths.flat(), over the entries from position i on
RECURSIVE Flat(_, _, _)
Flat(d, entries, i) ==
    IF i > Len(entries) THEN <<>>
    ELSE (IF IsDirectory(tree[entries[i]])
          THEN lf[entries[i]].result
          ELSE <<PathJoin(lf[d].dirPath, tree[entries[i]].name)>>)
         \o Flat(d, entries, i + 1)

\* (variant: listFiles does not call itself)
SublistsNone(d) == {}

\* the entries listFiles calls itself on
Sublists(d) == {c \in Dirs \ {0} : tree[c].parent = d /\ IsDirectory(tree[c])}

LfCall ==
    /\ lf[0].st = "none"
    /\ lf' = [lf EXCEPT ![0] = [NoLf EXCEPT !.st = "readdir", !.dirPath = baseDir]]
    /\ UNCHANGED <<finder, helpers, jsonVars, moveVars, linkVars, lfFs, ue>>

\* `await readdir(...)` settles; on success the callbacks of entries.map run
\* up to their first await
LfReaddir(d) ==
    /\ lf[d].st = "readdir"
    /\ lf' = IF lfFs.readdir[d] = "ok"
             THEN IF Len(Children(d)) = 0
                  THEN [lf EXCEPT ![d].st = "returned"]
                  ELSE [c \in Dirs |->
                           IF c = d THEN [lf[d] EXCEPT !.st = "waiting"]
                           ELSE IF c \in Sublists(d)
                                THEN [NoLf EXCEPT !.st = "readdir",
                                         !.dirPath = PathJoin(lf[d].dirPath, tree[c].name)]
                           ELSE lf[c]]
             ELSE IF lfFs.readdir[d] \in SkippedCodes
                  THEN [lf EXCEPT ![d].st = "returned"]
             ELSE [lf EXCEPT ![d].st = "thrown"]
    /\ UNCHANGED <<finder, helpers, jsonVars, moveVars, linkVars, lfFs, ue>>

\* `await Promise.all(...)` settles: with all the lists, or with the first
\* rejection, which the catch rethrows (a skipped code never arrives here)
LfSettle(d) ==
    /\ lf[d].st = "waiting"
    /\ \/ /\ \A c \in Sublists(d) : lf[c].st = "returned"
          /\ lf' = [lf EXCEPT ![d].st = "returned",
                              ![d].result = Flat(d, Children(d), 1)]
       \/ /\ \E c \in Sublists(d) : lf[c].st = "thrown"
          /\ lf' = [lf EXCEPT ![d].st = "thrown"]
    /\ UNCHANGED <<finder, helpers, jsonVars, moveVars, linkVars, lfFs, ue>>

-----------------------------------------------------------------------------
(* writeEnvRecord(envPath, record) and updateEnv(envPath, update), on the   *)
(* file envFile.  A record is the sequence of its [key, value] entries in   *)
(* the order Object.entries gives them.  The calls of writeEnvVar that      *)
(* writeEnvRecord makes run as the steps of writeEnvVar above.              *)

MaxUpserts == 2         \* calls of updateEnv, writeEnvRecord and writeEnvVar in one run of them

\* pc: "idle" | "readFile" | "update" | "ensureFile" | "loop" | "writeEnvVar" |
\* "done"; fn: the function called; status: "none" | "resolved" | "rejected";
\* envContent: what updateEnv read; record: the record to write; todo: the
\* entries the loop has not come to yet
NoUe ==
    [pc |-> "idle", fn |-> "none", envContent |-> <<>>, record |-> <<>>,
     todo |-> <<>>, status |-> "none", calls |-> 0]

\* the entries of the object parseEnv returns: each key once, where it was
\* first assigned, with the value assigned last
RECURSIVE Entries(_, _)
Entries(parsedEnv, i) ==
    IF i > Len(parsedEnv) THEN <<>>
    ELSE IF \E j \in 1..(i - 1) : parsedEnv[j].key = parsedEnv[i].key
         THEN Entries(parsedEnv, i + 1)
    ELSE LET hits == {j \in i..Len(parsedEnv) : parsedEnv[j].key = parsedEnv[i].key}
         IN  <<[key |-> parsedEnv[i].key,
                value |-> parsedEnv[CHOOSE j \in hits : \A k \in hits : k <= j].value]>>
             \o Entries(parsedEnv, i + 1)

\* what the update function may return: records of its own making, and the
\* record it was given, as it is or with an entry added
UpdateResults(parsedEnv) ==
    { <<>>,
      <<[key |-> <<"A">>, value |-> <<"v">>]>>,
      <<[key |-> <<"C">>, value |-> <<>>], [key |-> <<"B">>, value |-> <<"v">>]>>,
      Entries(parsedEnv, 1),
      Entries(parsedEnv, 1) \o <<[key |-> <<"C">>, value |-> <<"v">>]>> }

Records == UpdateResults(<<>>)

UeIdle == ue.pc \in {"idle", "done"} /\ wr.pc \in {"idle", "done"}

\* the caller calls updateEnv(envPath, update)
UeCall ==
    /\ UeIdle
    /\ ue.calls < MaxUpserts
    /\ ue' = [NoUe EXCEPT !.pc = "readFile", !.fn = "updateEnv", !.calls = ue.calls + 1]
    /\ UNCHANGED <<finder, helpers, jsonVars, moveVars, linkVars, listVars>>

\* `await readFile(envPath, "utf-8")` settles: updateEnv rejects when it fails
UeReadFile ==
    /\ ue.pc = "readFile"
    /\ ue' = IF envFile.exists
             THEN [ue EXCEPT !.pc = "update", !.envContent = envFile.content]
             ELSE [ue EXCEPT !.pc = "done", !.status = "rejected"]
    /\ UNCHANGED <<finder, helpers, jsonVars, moveVars, linkVars, listVars>>

\* parseEnv(envContent, false), then `await update(parsedEnv)` settles
UeUpdate ==
    /\ ue.pc = "update"
    /\ \E updated \in UpdateResults(parseEnv(ue.envContent)) :
          ue' = [ue EXCEPT !.pc = "ensureFile", !.record = updated, !.todo = updated]
    /\ UNCHANGED <<finder, helpers, jsonVars, moveVars, linkVars, listVars>>

\* the caller calls writeEnvRecord(envPath, record)
UeRecordCall(record) ==
    /\ UeIdle
    /\ ue.calls < MaxUpserts
    /\ ue' = [NoUe EXCEPT !.pc = "ensureFile", !.fn = "writeEnvRecord",
                          !.record = record, !.todo = record, !.calls = ue.calls + 1]
    /\ UNCHANGED <<finder, helpers, jsonVars, moveVars, linkVars, listVars>>

\* writeEnvRecord: `await ensureFile(envPath)`
UeEnsureFile ==
    /\ ue.pc = "ensureFile"
    /\ envFile' = IF ~envFile.exists /\ envFile.writable
                  THEN [envFile EXCEPT !.exists = TRUE, !.content = <<>>]
                  ELSE envFile
    /\ ue' = [ue EXCEPT !.pc = "loop"]
    /\ UNCHANGED <<finder, upFs, up, wr, jsonVars, moveVars, linkVars, listVars>>

\* the for loop: the next entry is handed to writeEnvVar(envPath, key, value),
\* run up to its first await; after the last entry the call resolves
UeLoop ==
    /\ ue.pc = "loop"
    /\ IF ue.todo = <<>>
       THEN /\ ue' = [ue EXCEPT !.pc = "done", !.status = "resolved"]
            /\ wr' = wr
       ELSE /\ ue' = [ue EXCEPT !.pc = "writeEnvVar", !.todo = Tail(ue.todo)]
            /\ wr' = [wr EXCEPT !.pc = "ensureFile", !.key = ue.todo[1].key,
                                !.value = ue.todo[1].value, !.onlyIfEmpty = FALSE,
                                !.envContent = <<>>, !.status = "none"]
    /\ UNCHANGED <<finder, upFs, up, envFile, jsonVars, moveVars, linkVars, listVars>>

\* `await writeEnvVar(...)` settles (writeEnvVar never rejects)
UeWritten ==
    /\ ue.pc = "writeEnvVar"
    /\ wr.pc = "done"
    /\ ue' = [ue EXCEPT !.pc = "loop"]
    /\ UNCHANGED <<finder, helpers, jsonVars, moveVars, linkVars, listVars>>

-----------------------------------------------------------------------------
(* Nothing has been called yet.                                             *)

ToolsIdle ==
    /\ jsonFile = NoJsonFile
    /\ uj = NoUj
    /\ mvFs = NoMvFs
    /\ mv = NoMv
    /\ slFs = NoSlFs
    /\ sl = NoSl
    /\ lfFs = [readdir |-> [d \in Dirs |-> "ok"]]
    /\ lf = [d \in Dirs |-> NoLf]
    /\ ue = NoUe

HelpersIdle ==
    /\ upFs = NoUpFs
    /\ up = NoUp
    /\ envFile = NoEnvFile
    /\ wr = NoWr
    /\ ToolsIdle

-----------------------------------------------------------------------------
(* The trees, patterns and options the calls are made with.                 *)

Dir(parent, name) == [parent |-> parent, name |-> name, kind |-> "dir"]
File(parent, name) == [parent |-> parent, name |-> name, kind |-> "file"]
Other(parent, name) == [parent |-> parent, name |-> name, kind |-> "other"]

\* sub/  a.ts  nm/  sub/c.ts  sub/d/  sub/d/e.ts  nm/mk  nm/ln -> (a symbolic link)
TreeMain ==
    << Dir(0, <<"s", "u", "b">>),
       File(0, <<"a", ".", "t", "s">>),
       Dir(0, <<"n", "m">>),
       File(1, <<"c", ".", "t", "s">>),
       Dir(1, <<"d">>),
       File(5, <<"e", ".", "t", "s">>),
       File(3, <<"m", "k">>),
       Other(3, <<"l", "n">>) >>

\* a.ts  b.js  sub/  sub/c.ts
TreeExample ==
    << File(0, <<"a", ".", "t", "s">>),
       File(0, <<"b", ".", "j", "s">>),
       Dir(0, <<"s", "u", "b">>),
       File(3, <<"c", ".", "t", "s">>) >>

PatTs == <<"*", "*", "/", "*", ".", "t", "s">>          \* **/*.ts
PatStar == <<"*">>                                      \* *
PatAll == <<"*", "*", "/", "*">>                        \* **/*

IgnSub == <<"s", "u", "b">>                             \* sub
IgnKeepC == <<"!", "s", "u", "b", "/", "c", ".", "t", "s">>   \* !sub/c.ts
IgnTs == <<"*", "*", "/", "*", ".", "t", "s">>          \* **/*.ts
IgnKeepA == <<"!", "a", ".", "t", "s">>                 \* !a.ts

NoGitignore == [exists |-> FALSE, content |-> <<>>]

DefaultOpts ==
    [maxDepth |-> Infinity, ignore |-> <<>>, matchFilesWithoutExtensions |-> TRUE,
     absolute |-> FALSE, useGitignore |-> FALSE, type |-> "files"]

PatternLists == {<<PatTs>>, <<PatStar>>, <<PatAll>>, <<PatTs, PatStar>>}

IgnoreLists == {<<>>, <<IgnSub, IgnKeepC>>, <<IgnTs, IgnKeepA>>}

MaxDepths == {-1, 0, 1, Infinity}

Types == {"files", "folders", "all"}

WalkOpts ==
    [maxDepth : MaxDepths, ignore : IgnoreLists,
     matchFilesWithoutExtensions : BOOLEAN, absolute : {FALSE},
     useGitignore : {FALSE}, type : Types]

\* the base directory, nm and sub/d in turn cannot be opened
UnopenableChoices == {{}, {0}, {3}, {5}}

Scenario(t, u, h, g, o, pl) ==
    [tree |-> t, unopenable |-> u, host |-> h, gitignore |-> g, opts |-> o,
     patternList |-> pl]

WalkScenarios ==
    {Scenario(TreeMain, u, "posix", NoGitignore, o, pl) :
        u \in UnopenableChoices, o \in WalkOpts, pl \in PatternLists}

ExampleScenarios ==
    {Scenario(TreeExample, {}, "posix", NoGitignore, DefaultOpts, <<PatTs>>)}

\* every option but two at its default, or every directory readable
Scenarios ==
    ExampleScenarios \cup
    {sc \in WalkScenarios :
        \/ sc.unopenable = {} /\ sc.opts.matchFilesWithoutExtensions
        \/ sc.opts.ignore = <<>> /\ sc.opts.maxDepth = Infinity}

InitFinder(scenarios) ==
    /\ \E sc \in scenarios :
          /\ tree = sc.tree
          /\ unopenable = sc.unopenable
          /\ host = sc.host
          /\ gitignore = sc.gitignore
          /\ opts = sc.opts
          /\ patternList = sc.patternList
    /\ patterns = <<>>
    /\ matchers = <<>>
    /\ ignoreMatchers = <<>>
    /\ ignoreNegMatchers = <<>>
    /\ results = <<>>
    /\ walks = [d \in Dirs |-> NoWalk]
    /\ outcome = "idle"
    /\ returnedLen = 0
    /\ readFaults = 0
    /\ hist = {}
    /\ probe = <<>>
    /\ verdict = "none"

InitWith(scenarios) == InitFinder(scenarios) /\ HelpersIdle

Init == InitWith(Scenarios)

Next ==
    \/ FindStart
    \/ \E d \in Dirs : Open(d)
    \/ \E d \in Dirs : ReadEntry(d)
    \/ \E d \in Dirs : ReadFail(d)
    \/ \E d \in Dirs : Join(d)
    \/ FindReturn

Spec == Init /\ [][Next]_vars


-----------------------------------------------------------------------------
(* isIgnored applied on its own: find builds the rules from an ignore list  *)
(* and an optional .gitignore, then isIgnored is asked about a path.        *)

SeqsUpTo(S, n) == UNION {[1..k -> S] : k \in 0..n}

IgnoreAtoms == {IgnSub, IgnKeepC, IgnTs, IgnKeepA}

\* "#x", " !a.ts ", "", "sub"
GitignoreText ==
    <<"#", "x", "\n", " ", "!", "a", ".", "t", "s", " ", "\n", "\n", "s", "u", "b">>

ProbePaths ==
    { <<"a", ".", "t", "s">>,
      <<"b", ".", "j", "s">>,
      <<"s", "u", "b">>,
      <<"s", "u", "b", "/", "c", ".", "t", "s">>,
      <<"s", "u", "b", "/", "d">>,
      <<"n", "m", "/", "m", "k">> }

IgnoreScenarios ==
    {Scenario(TreeExample, {}, "posix", g.file,
              [DefaultOpts EXCEPT !.ignore = ign, !.useGitignore = g.use], <<PatAll>>) :
        ign \in SeqsUpTo(IgnoreAtoms, MaxIgnoreLen),
        g \in { [use |-> FALSE, file |-> NoGitignore],
                [use |-> TRUE, file |-> NoGitignore],
                [use |-> TRUE, file |-> [exists |-> TRUE, content |-> GitignoreText]] }}

InitIgnore == InitWith(IgnoreScenarios)

NextIgnore ==
    \/ FindStart
    \/ \E p \in ProbePaths : AskIsIgnored(p)

SpecIgnore == InitIgnore /\ [][NextIgnore]_vars

-----------------------------------------------------------------------------
(* The caller calls find repeatedly on the unchanged tree.                  *)

RepeatScenarios ==
    {Scenario(TreeMain, u, "posix", NoGitignore, [DefaultOpts EXCEPT !.type = ty],
              <<PatTs, PatStar>>) :
        u \in {{}, {5}}, ty \in {"files", "all"}}
    \cup
    {Scenario(TreeExample, {}, "posix", NoGitignore,
              [DefaultOpts EXCEPT !.type = ty, !.maxDepth = md, !.ignore = ign], pl) :
        ty \in Types, md \in {0, Infinity}, ign \in {<<>>, <<IgnTs, IgnKeepA>>},
        pl \in {<<PatTs, PatStar>>, <<PatStar, PatAll>>}}

InitRepeat == InitWith(RepeatScenarios)

NextRepeat ==
    \/ Next
    \/ FindAgain

SpecRepeat == InitRepeat /\ [][NextRepeat]_vars

-----------------------------------------------------------------------------
(* One call of find under fair scheduling: every continuation that can run  *)
(* does run in the end, the event loop leaves no settled await behind.  The *)
(* tree holds a symbolic link; directories that cannot be opened and a read *)
(* that fails part-way are among the runs.                                  *)

FairScenarios ==
    {Scenario(TreeMain, u, "posix", NoGitignore,
              [DefaultOpts EXCEPT !.type = ty, !.maxDepth = md], pl) :
        u \in UnopenableChoices, md \in {0, 1, Infinity},
        pl \in {<<PatAll>>, <<PatTs, PatStar>>}, ty \in {"files", "all"}}

InitFair == InitWith(FairScenarios)

SpecFair == InitFair /\ [][Next]_vars /\ WF_vars(Next)

-----------------------------------------------------------------------------
(* A matcher applied on its own: find compiles one pattern, then the        *)
(* matcher is tested on a string.                                           *)

PatternAlphabet == {"a", ".", "/", "*", "?"}

PathAlphabet == {"a", ".", "/", "\n"}

\* **/a.a  a/**/a  **/*.a
LongPatterns ==
    { <<"*", "*", "/", "a", ".", "a">>,
      <<"a", "/", "*", "*", "/", "a">>,
      <<"*", "*", "/", "*", ".", "a">> }

\* a/a/a  a/a/a.a  a/a.a  aa/a/a
LongPaths ==
    { <<"a", "/", "a", "/", "a">>,
      <<"a", "/", "a", "/", "a", ".", "a">>,
      <<"a", "/", "a", ".", "a">>,
      <<"a", "a", "/", "a", "/", "a">> }

GlobPatterns == SeqsUpTo(PatternAlphabet, MaxPatternLen) \cup LongPatterns

GlobPaths == SeqsUpTo(PathAlphabet, MaxPathLen) \cup LongPaths

GlobScenarios ==
    {Scenario(TreeExample, {}, "posix", NoGitignore, DefaultOpts, <<P>>) :
        P \in GlobPatterns}

InitGlob == InitWith(GlobScenarios)

\* one string is tested in a behaviour
NextGlob ==
    \/ FindStart
    \/ verdict = "none" /\ \E p \in GlobPaths : AskMatches(p)

SpecGlob == InitGlob /\ [][NextGlob]_vars

-----------------------------------------------------------------------------
(* find called with the other options: extensionless files, either host,    *)
(* absolute paths, the empty pattern, node_modules, a .gitignore.           *)

\* mk  a.ts  sub/  sub/mk  sub/b.ts
TreeMake ==
    << File(0, <<"m", "k">>),
       File(0, <<"a", ".", "t", "s">>),
       Dir(0, <<"s", "u", "b">>),
       File(3, <<"m", "k">>),
       File(3, <<"b", ".", "t", "s">>) >>

MakeScenarios ==
    {Scenario(TreeMake, {}, "posix", NoGitignore,
              [DefaultOpts EXCEPT !.matchFilesWithoutExtensions = m, !.type = ty], pl) :
        m \in BOOLEAN, ty \in {"files", "all"}, pl \in {<<PatStar>>, <<PatAll>>}}

\* either host, relative and absolute results
HostScenarios ==
    {Scenario(TreeExample, {}, h, NoGitignore,
              [DefaultOpts EXCEPT !.absolute = a, !.type = ty], <<PatTs>>) :
        h \in {"posix", "win32"}, a \in BOOLEAN, ty \in {"files", "all"}}

\* the empty pattern, as a pattern and as an ignore pattern
EmptyScenarios ==
    {Scenario(t, {}, "posix", NoGitignore, [DefaultOpts EXCEPT !.type = "all"], pl) :
        t \in {TreeExample, TreeMake}, pl \in {<< <<>> >>, << <<>>, PatTs >>}}
    \cup
    {Scenario(t, {}, "posix", NoGitignore,
              [DefaultOpts EXCEPT !.type = "all", !.ignore = << <<>> >>], <<PatAll>>) :
        t \in {TreeExample, TreeMake}}

NodeModules == <<"n", "o", "d", "e", "_", "m", "o", "d", "u", "l", "e", "s">>
IndexJs == <<"i", "n", "d", "e", "x", ".", "j", "s">>

\* node_modules/  src/  node_modules/pkg/  node_modules/pkg/index.js
\* src/index.js  node_modules/index.js  src/node_modules/
\* src/node_modules/index.js  index.js  node_modules/pkg/lib/
\* node_modules/pkg/lib/index.js
TreeModules ==
    << Dir(0, NodeModules),
       Dir(0, <<"s", "r", "c">>),
       Dir(1, <<"p", "k", "g">>),
       File(3, IndexJs),
       File(2, IndexJs),
       File(1, IndexJs),
       Dir(2, NodeModules),
       File(7, IndexJs),
       File(0, IndexJs),
       Dir(3, <<"l", "i", "b">>),
       File(10, IndexJs) >>

PatJs == <<"*", "*", "/", "*", ".", "j", "s">>                  \* **/*.js
IgnNodeModules == <<"*", "*", "/">> \o NodeModules \o <<"/", "*", "*">>   \* **/node_modules/**

ModulesScenarios ==
    {Scenario(TreeModules, {}, "posix", NoGitignore,
              [DefaultOpts EXCEPT !.ignore = <<IgnNodeModules>>, !.type = ty], <<PatJs>>) :
        ty \in {"files", "all"}}

\* "**/*.ts", "<tab># c", "", "!a.ts", "" with CR LF line ends
GitignoreCrLf ==
    <<"*", "*", "/", "*", ".", "t", "s", "\r", "\n", "\t", "#", " ", "c", "\r", "\n",
      "\r", "\n", "!", "a", ".", "t", "s", "\r", "\n">>

\* no readable .gitignore, or one of two texts; consulted or not
GitignoreScenarios ==
    {Scenario(TreeExample, {}, "posix", g,
              [DefaultOpts EXCEPT !.ignore = ign, !.useGitignore = use], <<PatAll>>) :
        g \in { NoGitignore,
                [exists |-> TRUE, content |-> GitignoreText],
                [exists |-> TRUE, content |-> GitignoreCrLf] },
        ign \in {<<>>, <<IgnSub>>},
        use \in BOOLEAN}

OptionScenarios ==
    MakeScenarios \cup HostScenarios \cup EmptyScenarios \cup ModulesScenarios
    \cup GitignoreScenarios

InitOptions == InitWith(OptionScenarios)

SpecOptions == InitOptions /\ [][Next]_vars

-----------------------------------------------------------------------------
(* findFileUpwards called once: with a relative fileName, from every        *)
(* directory of the chain given as an absolute or as a relative cwd, on     *)
(* every assignment of lstat outcomes to the directories; with an absolute  *)
(* or an empty fileName.                                                     *)

UpMaxDepths == {-1, 0, 1, 2, Infinity}

UpCwds ==
    {AbsPath(n) : n \in 0..MaxLevel} \cup {RelPath(n) : n \in 0..(MaxLevel - ProcLevel)}

InitUpwards ==
    /\ InitFinder(ExampleScenarios)
    /\ ToolsIdle
    /\ envFile = NoEnvFile
    /\ wr = NoWr
    /\ \/ /\ up \in {[NoUp EXCEPT !.cwd = c, !.maxDepth = m] :
                         c \in UpCwds, m \in UpMaxDepths}
          /\ upFs \in {[NoUpFs EXCEPT !.dirs = d] : d \in [0..MaxLevel -> LstatOutcomes]}
       \/ /\ up \in {[NoUp EXCEPT !.fileName = f] : f \in {"abs", "empty"}}
          /\ upFs \in {[NoUpFs EXCEPT !.target = t] : t \in LstatOutcomes}

NextUpwards ==
    \/ UpCall
    \/ UpLstatAbs
    \/ UpLstat

SpecUpwards == InitUpwards /\ [][NextUpwards]_vars

-----------------------------------------------------------------------------
(* writeEnvVar called up to MaxWrites times on one file: the file missing   *)
(* or holding up to MaxEnvLines lines, the file (or its directory) writable *)
(* or not, the key one of two names, with and without onlyIfEmpty.          *)

MaxEnvLines == 3        \* lines of the file before the first call

\* A=1   A=   B=1   (blank)   #A=1   A =1
EnvLines ==
    { <<"A", "=", "1">>, <<"A", "=">>, <<"B", "=", "1">>, <<>>,
      <<"#", "A", "=", "1">>, <<"A", " ", "=", "1">> }

EnvContents ==
    {JoinLines(ls) : ls \in UNION {[1..n -> EnvLines] : n \in 1..MaxEnvLines}}

EnvKeys == { <<"A">>, <<"B">> }

EnvValues == { <<"v">>, <<>> }

InitEnv ==
    /\ InitFinder(ExampleScenarios)
    /\ ToolsIdle
    /\ upFs = NoUpFs
    /\ up = NoUp
    /\ wr = NoWr
    /\ \/ envFile \in [exists : {TRUE}, writable : BOOLEAN, content : EnvContents]
       \/ envFile \in [exists : {FALSE}, writable : BOOLEAN, content : {<<>>}]

NextEnv ==
    \/ \E key \in EnvKeys, value \in EnvValues, onlyIfEmpty \in BOOLEAN :
           WrCall(key, value, onlyIfEmpty)
    \/ WrEnsureFile
    \/ WrReadFile
    \/ WrWriteFile

SpecEnv == InitEnv /\ [][NextEnv]_vars

-----------------------------------------------------------------------------
(* updateJson called up to MaxUpdates times on one file: missing, holding   *)
(* text that is not JSON, or holding a JSON value.                          *)

\* (empty)  {  {"a":1  nul  [1,]  01
InvalidJsonTexts ==
    { <<>>, <<"{">>, <<"{", "\"", "a", "\"", ":", "1">>, <<"n", "u", "l">>,
      <<"[", "1", ",", "]">>, <<"0", "1">> }

\* {"a":1}  { "a" : [1, "b"] }  []  [0]  {}  "x"  12  -3  true  0  false  null  ""
ValidJsonTexts ==
    { <<"{", "\"", "a", "\"", ":", "1", "}">>,
      <<"{", " ", "\"", "a", "\"", " ", ":", " ", "[", "1", ",", " ", "\"", "b", "\"", "]", " ", "}", "\n">>,
      <<"[", "]">>, <<"[", "0", "]">>, <<"{", "}">>, <<"\"", "x", "\"">>,
      <<"1", "2">>, <<"-", "3">>, <<"t", "r", "u", "e">>,
      <<"0">>, <<"f", "a", "l", "s", "e">>, <<"n", "u", "l", "l">>, <<"\"", "\"">> }

InitJson ==
    /\ InitFinder(ExampleScenarios)
    /\ upFs = NoUpFs
    /\ up = NoUp
    /\ envFile = NoEnvFile
    /\ wr = NoWr
    /\ uj = NoUj
    /\ mvFs = NoMvFs /\ mv = NoMv
    /\ slFs = NoSlFs /\ sl = NoSl
    /\ lfFs = [readdir |-> [d \in Dirs |-> "ok"]]
    /\ lf = [d \in Dirs |-> NoLf]
    /\ ue = NoUe
    /\ \/ jsonFile \in [exists : {TRUE}, writable : BOOLEAN,
                        content : InvalidJsonTexts \cup ValidJsonTexts]
       \/ jsonFile \in [exists : {FALSE}, writable : BOOLEAN, content : {<<>>}]

NextJson ==
    \/ UjCall
    \/ UjReadJson
    \/ UjUpdater
    \/ UjWriteJson

SpecJson == InitJson /\ [][NextJson]_vars

-----------------------------------------------------------------------------
(* move called up to MaxMoves times, with and without overwrite, between    *)
(* two paths: every pairing of the nodes below, on one device or across     *)
(* devices, with each of the calls failing or not.                          *)

\* nothing; a file; an empty directory; a/ with a file; a directory two deep
SrcNodes ==
    { Nothing, FileNode(1), DirNode({}),
      DirNode({FileAt(<<"a">>, 1)}),
      DirNode({FileAt(<<"a">>, 1), DirAt(<<"s">>), FileAt(<<"s", "b">>, 2),
               DirAt(<<"s", "t">>)}) }

\* nothing; a file; an empty directory; a directory with other data at a and
\* an entry src has not; a directory where a is a directory
DestNodes ==
    { Nothing, FileNode(9), DirNode({}),
      DirNode({FileAt(<<"a">>, 9), FileAt(<<"z">>, 9)}),
      DirNode({DirAt(<<"a">>)}) }

RenameFaults == {"none", "EXDEV", "EACCES"}

InitMove ==
    /\ InitFinder(ExampleScenarios)
    /\ upFs = NoUpFs
    /\ up = NoUp
    /\ envFile = NoEnvFile
    /\ wr = NoWr
    /\ jsonFile = NoJsonFile
    /\ uj = NoUj
    /\ slFs = NoSlFs /\ sl = NoSl
    /\ lfFs = [readdir |-> [d \in Dirs |-> "ok"]]
    /\ lf = [d \in Dirs |-> NoLf]
    /\ ue = NoUe
    /\ mv = NoMv
    /\ mvFs \in [src : SrcNodes, dest : DestNodes, fault : RenameFaults,
                 copyFails : BOOLEAN, srcLocked : BOOLEAN, destLocked : BOOLEAN]

NextMove ==
    \/ \E overwrite \in BOOLEAN : MvCall(overwrite)
    \/ MvPathExists
    \/ MvRemove
    \/ MvRename
    \/ MvCp
    \/ MvRm

SpecMove == InitMove /\ [][NextMove]_vars

-----------------------------------------------------------------------------
(* ensureSymlink called up to MaxLinks times with one of two sources, on a  *)
(* dest that is absent, a file, a directory or a link to either source.     *)

LinkSources == {"s1", "s2"}

DestKinds == {Absent, PlainFile, Directory} \cup {LinkTo(t) : t \in LinkSources}

LstatFaults == {"none", "EACCES"}

InitLink ==
    /\ InitFinder(ExampleScenarios)
    /\ upFs = NoUpFs
    /\ up = NoUp
    /\ envFile = NoEnvFile
    /\ wr = NoWr
    /\ jsonFile = NoJsonFile
    /\ uj = NoUj
    /\ mvFs = NoMvFs
    /\ mv = NoMv
    /\ lfFs = [readdir |-> [d \in Dirs |-> "ok"]]
    /\ lf = [d \in Dirs |-> NoLf]
    /\ ue = NoUe
    /\ sl = NoSl
    /\ slFs \in [dest : DestKinds, lstatFault : LstatFaults, symlinkFails : BOOLEAN]

NextLink ==
    \/ \E src \in LinkSources : SlCall(src)
    \/ SlLstat
    \/ SlUnlink
    \/ SlSymlink

SpecLink == InitLink /\ [][NextLink]_vars

-----------------------------------------------------------------------------
(* listFiles called once on the base directory of a tree, readdir faring    *)
(* in every way on every directory.                                         *)

ListScenarios ==
    {Scenario(t, {}, h, NoGitignore, DefaultOpts, <<PatTs>>) :
        t \in {TreeMain, TreeExample, <<>>}, h \in {"posix", "win32"}}

InitList ==
    /\ InitFinder(ListScenarios)
    /\ upFs = NoUpFs
    /\ up = NoUp
    /\ envFile = NoEnvFile
    /\ wr = NoWr
    /\ jsonFile = NoJsonFile
    /\ uj = NoUj
    /\ mvFs = NoMvFs
    /\ mv = NoMv
    /\ slFs = NoSlFs
    /\ sl = NoSl
    /\ ue = NoUe
    /\ lf = [d \in Dirs |-> NoLf]
    /\ lfFs \in [readdir : [Dirs -> ReaddirOutcomes]]

NextList ==
    \/ LfCall
    \/ \E d \in Dirs : LfReaddir(d)
    \/ \E d \in Dirs : LfSettle(d)

SpecList == InitList /\ [][NextList]_vars

-----------------------------------------------------------------------------
(* updateEnv, writeEnvRecord and writeEnvVar called one after the other on  *)
(* one file, which is missing or holds up to MaxUpsertLines lines.          *)

MaxUpsertLines == 2     \* lines of the file before the first call

\* the lines above, and: export B=1
UpsertLines == EnvLines \cup { <<"e", "x", "p", "o", "r", "t", " ", "B", "=", "1">> }

UpsertContents ==
    {JoinLines(l) : l \in UNION {[1..n -> UpsertLines] : n \in 1..MaxUpsertLines}}

InitUpsert ==
    /\ InitFinder(ExampleScenarios)
    /\ ToolsIdle
    /\ upFs = NoUpFs
    /\ up = NoUp
    /\ wr = NoWr
    /\ \/ envFile \in [exists : {TRUE}, writable : BOOLEAN, content : UpsertContents]
       \/ envFile \in [exists : {FALSE}, writable : BOOLEAN, content : {<<>>}]

\* MaxUpserts calls in all, of whichever of the three functions
CallsLeft == ue.calls + wr.calls < MaxUpserts

NextUpsert ==
    \/ CallsLeft /\ UeCall
    \/ UeReadFile
    \/ UeUpdate
    \/ CallsLeft /\ \E record \in Records : UeRecordCall(record)
    \/ UeEnsureFile
    \/ UeLoop
    \/ UeWritten
    \/ /\ CallsLeft
       /\ UeIdle
       /\ \E key \in EnvKeys, value \in EnvValues : WrCall(key, value, FALSE)
    \/ WrEnsureFile
    \/ WrReadFile
    \/ WrWriteFile

SpecUpsert == InitUpsert /\ [][NextUpsert]_vars

-----------------------------------------------------------------------------
(* What the claims speak of, stated on the tree and on the arguments.       *)

\* the pattern text matches the path
PatternMatches(pattern, path) == test(globToRegex(NormalizeSlashes(pattern)), path)

\* some negated ('!'-prefixed) pattern of the ignore list matches the path
NegatedMatch(path) ==
    \E i \in 1..Len(ignoreList) :
        StartsWith(ignoreList[i], "!") /\ PatternMatches(Tail(ignoreList[i]), path)

\* some deny pattern of the ignore list matches the path
DenyMatch(path) ==
    \E i \in 1..Len(ignoreList) :
        ~StartsWith(ignoreList[i], "!") /\ PatternMatches(ignoreList[i], path)

RuleIgnores(path) == ~NegatedMatch(path) /\ DenyMatch(path)

\* the base-relative POSIX path of entry n
RECURSIVE RelPosix(_)
RelPosix(n) ==
    IF tree[n].parent = 0 THEN tree[n].name
    ELSE RelPosix(tree[n].parent) \o <<"/">> \o tree[n].name

\* the directories between the base and entry n
RECURSIVE Ancestors(_)
Ancestors(n) ==
    IF tree[n].parent = 0 THEN {}
    ELSE {tree[n].parent} \cup Ancestors(tree[n].parent)

Segments(n) == 1 + Cardinality(Ancestors(n))

\* the string find returns for entry n
Returns(n) ==
    LET posix == RelPosix(n)
        rel == [i \in 1..Len(posix) |-> IF posix[i] = "/" THEN sep ELSE posix[i]]
    IN  IF opts.absolute THEN baseDir \o <<sep>> \o rel ELSE rel

Returned ==
    LET found == ToSet(results) IN {n \in Nodes : Returns(n) \in found}

KindEligible(n) ==
    \/ tree[n].kind = "dir" /\ opts.type \in {"folders", "all"}
    \/ tree[n].kind = "file" /\ opts.type \in {"files", "all"}

PassesExtensionFilter(n) ==
    tree[n].kind = "file" =>
        opts.matchFilesWithoutExtensions \/ ExtName(tree[n].name) # <<>>

\* entry n is reached by a walk when the directories in `blocked` are empty subtrees
Reachable(n, blocked) ==
    /\ 0 \notin blocked
    /\ \A a \in Ancestors(n) : ~RuleIgnores(RelPosix(a)) /\ a \notin blocked
    /\ ~RuleIgnores(RelPosix(n))
    /\ Segments(n) <= opts.maxDepth + 1

Reference(pl, blocked) ==
    {n \in Nodes :
        /\ Reachable(n, blocked)
        /\ KindEligible(n)
        /\ PassesExtensionFilter(n)
        /\ \E i \in 1..Len(pl) : PatternMatches(pl[i], RelPosix(n))}

NoFailure == \A d \in Dirs : walks[d].err = "none"

-----------------------------------------------------------------------------
\* C1: isIgnored(p) is false whenever a negated pattern of the ignore list
\* (explicit patterns and .gitignore lines, in whatever order) matches p, also
\* when deny patterns match p too; otherwise it is true iff a deny pattern
\* matches p.
C1_OverrideWins ==
    verdict # "none" =>
        IF NegatedMatch(probe)
        THEN verdict = "kept"
        ELSE (verdict = "ignored") <=> DenyMatch(probe)

\* a deny pattern listed after the negated one matches the path as well
C1_Witness ==
    /\ verdict = "kept"
    /\ \E i, j \in 1..Len(ignoreList) :
          /\ i < j
          /\ StartsWith(ignoreList[i], "!")
          /\ PatternMatches(Tail(ignoreList[i]), probe)
          /\ ~StartsWith(ignoreList[j], "!")
          /\ PatternMatches(ignoreList[j], probe)


-----------------------------------------------------------------------------
\* C2: when no directory operation fails, the set of paths find returns is the
\* reference set: the entries below the base with no ignored ancestor, not
\* ignored themselves, at most maxDepth+1 segments deep, of a kind eligible
\* for `type`, passing the extensionless filter and matched by at least one
\* pattern; the tree {a.ts, b.js, sub/c.ts} with '**/*.ts' gives exactly
\* {a.ts, sub/c.ts}.
C2_ReturnsReferenceSet ==
    (outcome = "resolved" /\ NoFailure) =>
        /\ ToSet(results) = {Returns(n) : n \in Reference(patterns, {})}
        /\ (tree = TreeExample /\ patterns = <<PatTs>> /\ opts = DefaultOpts) =>
              ToSet(results) = { <<"a", ".", "t", "s">>,
                                 <<"s", "u", "b", "/", "c", ".", "t", "s">> }

\* the example call has resolved with its two paths
C2_Witness ==
    /\ outcome = "resolved"
    /\ NoFailure
    /\ tree = TreeExample
    /\ patterns = <<PatTs>>
    /\ Len(results) = 2
    /\ <<"b", ".", "j", "s">> \notin ToSet(results)

\* C3: the ignore check comes before collection and recursion: no returned
\* path is ignored or lies below an ignored directory, and an ignored
\* directory is never collected and nothing below it is ever walked, also
\* when an override pattern matches one of its descendants.
C3_IgnoreBeforeCollectAndRecurse ==
    /\ \A n \in Returned :
          /\ ~RuleIgnores(RelPosix(n))
          /\ \A a \in Ancestors(n) : ~RuleIgnores(RelPosix(a))
    /\ \A d \in Dirs \ {0} :
          walks[d].st # "none" =>
              /\ ~RuleIgnores(RelPosix(d))
              /\ \A a \in Ancestors(d) : ~RuleIgnores(RelPosix(a))

\* sub is ignored, the override !sub/c.ts and a pattern match sub/c.ts; the
\* call has resolved with other paths, sub was not walked
C3_Witness ==
    /\ outcome = "resolved"
    /\ tree = TreeMain
    /\ RuleIgnores(RelPosix(1))
    /\ NegatedMatch(RelPosix(4))
    /\ \E i \in 1..Len(patterns) : PatternMatches(patterns[i], RelPosix(4))
    /\ opts.type = "files"
    /\ 4 \notin Returned
    /\ walks[1].st = "none"
    /\ Returned # {}

\* the walk of directory d has got as far as opendir
Attempted(d) ==
    walks[d].st = "opening" \/ walks[d].pos > 0 \/ walks[d].err = "open"

\* the entries the loops have yielded so far
Visited ==
    {n \in Nodes :
        LET siblings == Children(tree[n].parent)
        IN  \E i \in 1..Len(siblings) :
                siblings[i] = n /\ i < walks[tree[n].parent].pos}

DepthOf(d) == IF d = 0 THEN 0 ELSE Segments(d)

\* C4: walk(dir, d) opens dir only if d <= maxDepth and schedules the walk of
\* a child directory only if d < maxDepth; every visited or returned entry lies
\* at most maxDepth+1 segments below the base; with maxDepth = 0 only the
\* entries directly inside the base are visited or collected.
C4_DepthBound ==
    /\ \A d \in Dirs :
          /\ walks[d].st # "none" => walks[d].currentDepth = DepthOf(d)
          /\ Attempted(d) => walks[d].currentDepth <= opts.maxDepth
          /\ walks[d].promises # {} => walks[d].currentDepth < opts.maxDepth
    /\ \A n \in Visited \cup Returned : Segments(n) <= opts.maxDepth + 1
    /\ opts.maxDepth = 0 =>
          /\ \A n \in Visited \cup Returned : tree[n].parent = 0
          /\ \A d \in Dirs \ {0} : walks[d].st = "none"

\* maxDepth = 1: sub was walked and sub/c.ts returned, sub/d was listed in sub
\* and not walked
C4_Witness ==
    /\ outcome = "resolved"
    /\ NoFailure
    /\ tree = TreeMain
    /\ opts.maxDepth = 1
    /\ walks[1].st = "done"
    /\ 4 \in Returned
    /\ 5 \in Visited
    /\ walks[5].st = "none"
    /\ ~RuleIgnores(RelPosix(5))


-----------------------------------------------------------------------------
\* C5: a directory's walk completes only after all the sub-walks it scheduled
\* have completed, and find resolves only once all walks have completed: also
\* when reading a directory fails part-way after sub-walks were scheduled,
\* nothing is appended to the result list after find has resolved.
C5_NoAppendAfterResolve ==
    outcome = "resolved" => Len(results) = returnedLen

\* C6: a directory that cannot be opened is an empty subtree: its walk returns
\* without raising, find never rejects, and (no read failing part-way) the
\* call resolves with every match outside the unopenable directories.
C6_UnopenableIsEmptySubtree ==
    /\ outcome # "rejected"
    /\ \A d \in Dirs : walks[d].err = "open" => walks[d].st = "done"
    /\ (outcome = "resolved" /\ NoReadFault) =>
          ToSet(results) = {Returns(n) : n \in Reference(patterns, unopenable)}

\* nm could not be opened; the matches in its sibling sub were returned
C6_Witness ==
    /\ outcome = "resolved"
    /\ NoReadFault
    /\ tree = TreeMain
    /\ walks[3].err = "open"
    /\ walks[1].st = "done"
    /\ 4 \in Returned
    /\ 6 \in Returned

\* C7 as stated: with an invalid base directory (one that cannot be opened)
\* the call raises instead of returning a result.
C7_InvalidBaseRaises ==
    (0 \in unopenable /\ outcome \in {"resolved", "rejected"}) => outcome = "rejected"

\* C7 amended: a find call runs to completion; with an invalid base directory
\* the failure is caught in walk and the call resolves with the empty list.
C7_InvalidBaseResolvesEmpty ==
    /\ outcome # "rejected"
    /\ (0 \in unopenable /\ outcome = "resolved") => results = <<>>
    /\ (0 \in unopenable /\ outcome = "running") => ENABLED (Open(0) \/ FindReturn)

\* opendir of the base directory failed and the call has resolved
C7_Witness ==
    /\ 0 \in unopenable
    /\ walks[0].err = "open"
    /\ outcome = "resolved"
    /\ returnedLen = 0

-----------------------------------------------------------------------------
\* C8: on an unchanged tree, with the same patterns and options, every call
\* returns the same set of paths, whatever the interleaving of the sub-walks
\* (calls in which no read fails part-way).
C8_SameSetEveryCall ==
    \A g, h \in hist : g.patterns = h.patterns => g.found = h.found

\* a repeated call has resolved, with a set of more than one path
C8_Witness ==
    \E h \in hist : h.again /\ Cardinality(h.found) >= 2

\* the record of a call with these patterns
Seen(pl) == {h \in hist : h.patterns = pl}

\* C9: a non-ignored, kind-eligible entry is collected iff at least one of the
\* patterns matches its base-relative POSIX path: the result set for a pattern
\* list is the union of the result sets of its patterns each run alone.
C9_ListIsUnionOfSingles ==
    /\ (outcome = "resolved" /\ NoReadFault) =>
          \A n \in Nodes :
              (Reachable(n, unopenable) /\ KindEligible(n) /\ PassesExtensionFilter(n)) =>
                  (n \in Returned <=>
                      \E i \in 1..Len(patterns) : PatternMatches(patterns[i], RelPosix(n)))
    /\ (\A i \in 1..Len(patternList) : Seen(<<patternList[i]>>) # {}) =>
          \A h \in Seen(patternList) :
              h.found = UNION {UNION {g.found : g \in Seen(<<patternList[i]>>)} :
                                  i \in 1..Len(patternList)}

\* the list and each of its two patterns have been run; each pattern alone
\* finds a path the other does not
C9_Witness ==
    /\ Len(patternList) = 2
    /\ Seen(patternList) # {}
    /\ \E g \in Seen(<<patternList[1]>>), h \in Seen(<<patternList[2]>>) :
          g.found \ h.found # {} /\ h.found \ g.found # {}

-----------------------------------------------------------------------------
\* C10: a directory is collected only when type is 'folders' or 'all', a
\* regular file only when type is 'files' or 'all': with 'files' no directory
\* is in the result, with 'folders' no file.
C10_TypeSelectsKinds ==
    \A n \in Returned :
        /\ tree[n].kind = "dir" => opts.type \in {"folders", "all"}
        /\ tree[n].kind = "file" => opts.type \in {"files", "all"}
        /\ tree[n].kind \in {"dir", "file"}

\* type 'folders': directories were returned, the file a.ts that the pattern
\* matches was not
C10_Witness ==
    /\ outcome = "resolved"
    /\ tree = TreeMain
    /\ opts.type = "folders"
    /\ 1 \in Returned
    /\ 2 \notin Returned
    /\ 2 \in Visited
    /\ \E i \in 1..Len(patterns) : PatternMatches(patterns[i], RelPosix(2))
    /\ ~RuleIgnores(RelPosix(2))

-----------------------------------------------------------------------------
\* the name has no extension: no "." in it (Makefile)
NoExtension(name) == "." \notin ToSet(name)

\* C11: with matchFilesWithoutExtensions = false a regular file whose name has
\* no extension is never in the result, whatever patterns match it; with the
\* default true such a file is returned when a pattern matches it (and the walk
\* reaches it and `type` admits files).
C11_ExtensionlessFilter ==
    /\ ~opts.matchFilesWithoutExtensions =>
          \A n \in Returned : tree[n].kind = "file" => ~NoExtension(tree[n].name)
    /\ (opts.matchFilesWithoutExtensions /\ outcome = "resolved" /\ NoFailure) =>
          \A n \in Nodes :
              ( /\ tree[n].kind = "file"
                /\ NoExtension(tree[n].name)
                /\ Reachable(n, {})
                /\ KindEligible(n)
                /\ \E i \in 1..Len(patterns) : PatternMatches(patterns[i], RelPosix(n)) )
              => n \in Returned

\* matchFilesWithoutExtensions = false and the pattern '*': mk in the base
\* directory was listed and is matched, and only a.ts was returned
C11_Witness ==
    /\ outcome = "resolved"
    /\ tree = TreeMake
    /\ ~opts.matchFilesWithoutExtensions
    /\ patterns = <<PatStar>>
    /\ 1 \in Visited
    /\ PatternMatches(PatStar, RelPosix(1))
    /\ 1 \notin Returned
    /\ 2 \in Returned

-----------------------------------------------------------------------------
\* the base-relative path of entry n in the host's own notation
RelHost(n) ==
    LET posix == RelPosix(n)
    IN  [i \in 1..Len(posix) |-> IF posix[i] = "/" THEN sep ELSE posix[i]]

\* C12: with absolute = false every returned path is the entry's path relative
\* to the base directory written with '/' separators, whatever the host's
\* separator; with absolute = true every returned path is that relative path
\* resolved against the base directory; one call never mixes the two forms.
C12_PathForm ==
    IF opts.absolute
    THEN \A i \in 1..Len(results) :
             \E n \in Nodes : results[i] = baseDir \o <<sep>> \o RelHost(n)
    ELSE \A i \in 1..Len(results) :
             \E n \in Nodes : results[i] = RelPosix(n)

-----------------------------------------------------------------------------
\* the glob semantics, on the pattern text: P[i..] is satisfied by exactly
\* p[j..].  A literal character matches itself, "?" one character other than
\* "/", "*" zero or more characters other than "/", and the three characters
\* "**/" zero path segments or a run of characters, separators included, that
\* ends with a separator.
RECURSIVE GlobRun(_, _, _, _)
GlobRun(P, i, p, j) ==
    IF i > Len(P) THEN j > Len(p)
    ELSE IF i + 2 <= Len(P) /\ P[i] = "*" /\ P[i + 1] = "*" /\ P[i + 2] = "/"
         THEN \/ GlobRun(P, i + 3, p, j)
              \/ \E e \in (j + 1)..Len(p) : p[e] = "/" /\ GlobRun(P, i + 3, p, e + 1)
    ELSE IF P[i] = "*"
         THEN \/ GlobRun(P, i + 1, p, j)
              \/ j <= Len(p) /\ p[j] # "/" /\ GlobRun(P, i, p, j + 1)
    ELSE IF P[i] = "?"
         THEN j <= Len(p) /\ p[j] # "/" /\ GlobRun(P, i + 1, p, j + 1)
    ELSE j <= Len(p) /\ p[j] = P[i] /\ GlobRun(P, i + 1, p, j + 1)

Satisfies(p, P) == GlobRun(P, 1, p, 1)

\* C13: for every pattern P and string p the compiled matcher accepts p iff
\* the whole of p satisfies P under the glob semantics (literals, also "."
\* and the other metacharacters, match themselves; "?", "*" and "**/" as
\* above); a match of a prefix or a suffix only is not accepted.
C13_MatcherIsGlobSemantics ==
    verdict \in {"matched", "unmatched"} =>
        (verdict = "matched" <=> Satisfies(probe, patternList[1]))

-----------------------------------------------------------------------------
\* C14: the empty pattern compiles to a matcher that matches the empty string
\* and nothing else, so find("") returns the empty list on every tree; an
\* empty ignore pattern ignores no entry: the call returns what it returns
\* with no ignore pattern.
C14_EmptyPatternMatchesNothing ==
    /\ \A i \in 1..Len(matchers) :
          patterns[i] = <<>> =>
              \A s \in GlobPaths : test(matchers[i], s) <=> s = <<>>
    /\ patterns = << <<>> >> => results = <<>>
    /\ (opts.ignore = << <<>> >> /\ outcome # "idle") =>
          /\ \A n \in Nodes : ~isIgnored(RelPosix(n))
          /\ (outcome = "resolved" /\ NoFailure) =>
                Returned = {n \in Nodes :
                               /\ KindEligible(n)
                               /\ PassesExtensionFilter(n)
                               /\ Segments(n) <= opts.maxDepth + 1
                               /\ \E i \in 1..Len(patterns) :
                                      Satisfies(RelPosix(n), patterns[i])}

\* find("") with type 'all' has listed every entry of the tree, sub/c.ts
\* included, and resolved with the empty list
C14_Witness ==
    /\ outcome = "resolved"
    /\ NoFailure
    /\ tree = TreeExample
    /\ patterns = << <<>> >>
    /\ Visited = Nodes
    /\ returnedLen = 0

-----------------------------------------------------------------------------
\* entry n lies beneath a directory named node_modules
BeneathNodeModules(n) == \E a \in Ancestors(n) : tree[a].name = NodeModules

\* the name ends with ".js"
IsJsName(name) ==
    Len(name) >= 3 /\ SubSeq(name, Len(name) - 2, Len(name)) = <<".", "j", "s">>

\* C15: with the ignore list ['**/node_modules/**'] and the pattern '**/*.js'
\* no file beneath a node_modules directory, at whatever depth, is in the
\* result, and every .js file outside node_modules is.
C15_NothingBeneathNodeModules ==
    (opts.ignore = <<IgnNodeModules>> /\ patterns = <<PatJs>>) =>
        /\ \A n \in Returned : tree[n].kind = "file" => ~BeneathNodeModules(n)
        /\ (outcome = "resolved" /\ NoFailure) =>
              \A n \in Nodes :
                  ( /\ tree[n].kind = "file"
                    /\ IsJsName(tree[n].name)
                    /\ ~BeneathNodeModules(n) )
                  => n \in Returned

\* node_modules was walked and node_modules/index.js listed; src/index.js and
\* index.js were returned, the files beneath the two node_modules were not
C15_Witness ==
    /\ outcome = "resolved"
    /\ NoFailure
    /\ tree = TreeModules
    /\ opts.ignore = <<IgnNodeModules>>
    /\ patterns = <<PatJs>>
    /\ walks[1].st = "done"
    /\ 6 \in Visited
    /\ walks[3].st = "none"
    /\ Returned = {5, 9}

-----------------------------------------------------------------------------
\* the lines of the .gitignore texts that count: trimmed, the blank ones and
\* the comments dropped
KeptLines(content) ==
    IF content = GitignoreText THEN <<IgnKeepA, IgnSub>>
    ELSE IF content = GitignoreCrLf THEN <<IgnTs, IgnKeepA>>
    ELSE <<>>

\* the ignore list the call is to work with
ExpectedIgnoreList ==
    opts.ignore \o (IF opts.useGitignore /\ gitignore.exists
                    THEN KeptLines(gitignore.content) ELSE <<>>)

\* C16: with useGitignore the ignore list is the explicit patterns followed by
\* the lines of the base directory's .gitignore, trimmed, blank lines and
\* '#' lines dropped, '!' lines becoming overrides; a .gitignore that is
\* missing or cannot be read adds no pattern and does not make find fail;
\* without useGitignore the file is not consulted.
C16_GitignoreLines ==
    /\ outcome # "rejected"
    /\ outcome # "idle" =>
          /\ ignoreMatchers = BuildIgnoreMatchers(ExpectedIgnoreList)
          /\ ignoreNegMatchers = BuildIgnoreNegMatchers(ExpectedIgnoreList)
          /\ Len(ignoreNegMatchers) =
                Cardinality({i \in 1..Len(ExpectedIgnoreList) :
                                StartsWith(ExpectedIgnoreList[i], "!")})
          /\ (~opts.useGitignore \/ ~gitignore.exists) =>
                Len(ignoreMatchers) + Len(ignoreNegMatchers) = Len(opts.ignore)

\* the CR LF .gitignore was consulted: its two patterns follow the explicit
\* one, '!a.ts' as an override; the call resolved with a.ts and b.js
C16_Witness ==
    /\ outcome = "resolved"
    /\ NoFailure
    /\ opts.useGitignore
    /\ gitignore.content = GitignoreCrLf
    /\ opts.ignore = <<IgnSub>>
    /\ ignoreMatchers = <<globToRegex(IgnSub), globToRegex(IgnTs)>>
    /\ ignoreNegMatchers = <<globToRegex(Tail(IgnKeepA))>>
    /\ Returned = {1, 2}

-----------------------------------------------------------------------------
\* a step that begins a find call
CallBegins == outcome # "running" /\ outcome' = "running"

\* C17: find is read-only and stateless: no step of a call changes the tree,
\* what can be opened in it or the .gitignore; a call begins with an empty
\* result list, with matchers and ignore rules built from its own arguments
\* and with no walk but that of the base directory, whatever the calls before
\* it left; and every call, the first or a later one, returns what its
\* arguments and the tree determine.
C17_ReadOnlyAndStateless ==
    /\ [][UNCHANGED <<tree, unopenable, gitignore, host, upFs, envFile>>]_vars
    /\ [][CallBegins =>
              /\ results' = <<>>
              /\ matchers' = [i \in 1..Len(patterns') |-> globToRegex(patterns'[i])]
              /\ ignoreMatchers' = BuildIgnoreMatchers(opts.ignore)
              /\ ignoreNegMatchers' = BuildIgnoreNegMatchers(opts.ignore)
              /\ \A d \in Dirs \ {0} : walks'[d] = NoWalk]_vars
    /\ [][\A h \in hist' \ hist :
              h.found = {Returns(n) : n \in Reference(h.patterns, unopenable)}]_vars

\* two calls with different patterns have resolved, with different results,
\* the later one after an earlier one had left a non-empty result list
C17_Witness ==
    /\ outcome = "resolved"
    /\ \E g, h \in hist :
          /\ g.patterns # h.patterns
          /\ g.found # {}
          /\ h.found # {}
          /\ g.found \ h.found # {}

-----------------------------------------------------------------------------
\* the directory the search starts in, and the maxDepth + 1 directories it
\* may examine: that one and its ancestors up to maxDepth levels above it
StartLevel == LevelOf(up.cwd)

Examinable == {l \in 0..StartLevel : StartLevel - l <= up.maxDepth}

\* those of them that hold a regular file named fileName
Holders == {l \in Examinable : upFs.dirs[l] = "file"}

\* C18: findFileUpwards(name, {cwd, maxDepth}) examines at most maxDepth + 1
\* directories, cwd and its successive parents, and returns the path of name
\* in the nearest of them that holds a regular file of that name, passing
\* over those where the lookup fails with ENOENT, EACCES or EPERM; it returns
\* null when none qualifies.
C18_FindsNearestUpwards ==
    up.fileName = "rel" =>
        /\ up.looked \subseteq Examinable
        /\ up.pc = "returned" =>
              IF Holders = {}
              THEN up.result = Null
              ELSE /\ up.result.kind = "path"
                   /\ LevelOf(up.result.dir) \in Holders
                   /\ \A l \in Holders : l <= LevelOf(up.result.dir)


\* ---- C19 ----
\* the text of the line before its first "=" trims to key
NamesKey(line, key) ==
    \E i \in 1..Len(line) :
        /\ line[i] = "="
        /\ \A j \in 1..(i - 1) : line[j] # "="
        /\ Trim(SubSeq(line, 1, i - 1)) = key

\* the lines of the file as the call read it, and as the call left it
LinesRead == SplitLines(wr.envContent, <<>>)
LinesLeft == SplitLines(envFile.content, <<>>)

\* key="value"
Pair == wr.key \o <<"=", "\"">> \o wr.value \o <<"\"">>

\* line i of the file is as it was read
KeepsItsPlace(i) == i <= Len(LinesLeft) /\ LinesLeft[i] = LinesRead[i]

WroteFile == wr.pc = "done" /\ wr.status = "written"

ValueOf(line) ==
    LET i == CHOOSE i \in 1..Len(line) :
                 line[i] = "=" /\ \A j \in 1..(i - 1) : line[j] # "="
    IN  ValueText(SubSeq(line, i + 1, Len(line)))

\* C20: a call of writeEnvVar with onlyIfEmpty = true that wrote the file
\* leaves a line that names the key with a value that is not empty as it was,
\* makes a line that names the key with an empty value key="value", and,
\* when no line names the key, adds key="value" after the lines, which stay.
C20_WritesOnlyIfEmpty ==
    (WroteFile /\ wr.onlyIfEmpty) =>
        IF \E i \in 1..Len(LinesRead) : NamesKey(LinesRead[i], wr.key)
        THEN /\ Len(LinesLeft) = Len(LinesRead)
             /\ \A i \in 1..Len(LinesRead) :
                   IF NamesKey(LinesRead[i], wr.key) /\ Trim(ValueOf(LinesRead[i])) = <<>>
                   THEN LinesLeft[i] = Pair
                   ELSE KeepsItsPlace(i)
        ELSE /\ Len(LinesLeft) = Len(LinesRead) + 1
             /\ LinesLeft[Len(LinesLeft)] = Pair
             /\ \A i \in 1..Len(LinesRead) : KeepsItsPlace(i)


\* ---- C21 ----
\* the JSON texts a file may hold: those it starts with and those writeJson
\* leaves
JsonTexts ==
    ValidJsonTexts \cup {Stringify(u, 0) : u \in UpdaterResults \ {Undefined}}

\* readFile threw or gave a text that is not JSON
MissingOrInvalid == ~uj.read.found \/ uj.read.data \notin JsonTexts

HasRead == uj.pc \in {"updater", "writeJson", "done"}

\* the file is as readFile found it
AsRead ==
    IF uj.read.found
    THEN jsonFile.exists /\ jsonFile.content = uj.read.data
    ELSE ~jsonFile.exists

\* C21: once updateJson has read the file, if the file was missing or held
\* invalid JSON then readJson returned null, the updater is never called and
\* the file stays as it was (missing stays missing); otherwise, when the call
\* has resolved, the updater was called and the file holds a JSON text of the
\* value it returned.
C21_ReadJsonNullElseUpdated ==
    HasRead =>
        IF MissingOrInvalid
        THEN uj.data = JsonNull /\ ~uj.called /\ AsRead
        ELSE (uj.pc = "done" /\ uj.status = "resolved") =>
                 /\ uj.called
                 /\ jsonFile.exists
                 /\ JsonParse(jsonFile.content) = Parsed(uj.updated, Len(Tokens(jsonFile.content, 1)) + 1)


\* ---- C22 ----
\* whatever the node given as src held, the node at dest holds: the file's
\* data, or every entry of the directory at its path with its data
HoldsCopy(given, node) ==
    /\ node.kind = given.kind
    /\ given.kind = "file" => node.data = given.data
    /\ \A e \in given.entries : e \in node.entries

\* C22: when rename failed with EXDEV and move has resolved, dest holds a copy
\* of all that src held and nothing is left at src; when rename failed with
\* another code, move rejected with that code.
C22_CrossDeviceCopiesAndDeletes ==
    /\ (mv.pc = "done" /\ mv.status = "resolved" /\ mv.renameError = "EXDEV") =>
           /\ HoldsCopy(mv.given, mvFs.dest)
           /\ mvFs.src = Nothing
    /\ (mv.pc = "done" /\ mv.renameError \notin {"untried", "none", "EXDEV"}) =>
           /\ mv.status = "rejected"
           /\ mv.error = mv.renameError

\* a directory two deep was moved across devices into a directory that held
\* entries of its own
C22_Witness ==
    /\ mv.pc = "done"
    /\ mv.status = "resolved"
    /\ mv.renameError = "EXDEV"
    /\ \E e \in mv.given.entries : Len(e.path) = 2
    /\ \E f \in mvFs.dest.entries : f \notin mv.given.entries

\* another rename error came back to the caller
C22_WitnessRethrown ==
    /\ mv.pc = "done"
    /\ mv.status = "rejected"
    /\ mv.renameError = "EACCES"


\* ---- C30 ----
RenameRejected ==
    mv.pc = "done" /\ mv.renameError \notin {"untried", "none", "EXDEV"}

C23_DestLinksToSrc ==
    (sl.pc = "done" /\ sl.status = "resolved") => slFs.dest = LinkTo(sl.src)


\* ---- C24 ----
\* the directories above entry n, the base directory included
RECURSIVE Above(_)
Above(n) == IF n = 0 THEN {} ELSE {tree[n].parent} \cup Above(tree[n].parent)

\* the full path of entry n: the base directory, then the names down to n
RECURSIVE FullPath(_)
FullPath(n) ==
    IF n = 0 THEN baseDir ELSE FullPath(tree[n].parent) \o <<sep>> \o tree[n].name

\* readdir succeeds in every directory above n
Listable(n) == \A d \in Above(n) : lfFs.readdir[d] = "ok"

\* the entries that are not directories and lie in directories that can all
\* be read
ListedEntries == {n \in Nodes : tree[n].kind # "dir" /\ Listable(n)}

\* a directory that listFiles reaches and whose readdir fails with a code that
\* is not skipped
Unexpected ==
    \E d \in Dirs : Listable(d) /\ lfFs.readdir[d] \notin SkippedCodes \cup {"ok"}

\* C24: when listFiles has resolved, its result holds exactly one path for
\* every entry that is not a directory and lies below directories that can
\* be read, and nothing else ([] when the directory itself cannot be read
\* for ENOENT, EACCES or EPERM); it resolves only if no readdir it reaches
\* fails with another code, and rejects only if one does.
C24_ListsEveryFileOnce ==
    /\ lf[0].st = "returned" =>
          /\ ~Unexpected
          /\ Len(lf[0].result) = Cardinality(ListedEntries)
          /\ ToSet(lf[0].result) = {FullPath(n) : n \in ListedEntries}
          /\ lfFs.readdir[0] \in SkippedCodes => lf[0].result = <<>>
    /\ lf[0].st = "thrown" => Unexpected

\* a nested directory could not be read, and the files beside it and the
\* entry that is neither file nor directory were listed
C24_Witness ==
    /\ lf[0].st = "returned"
    /\ \E d \in Dirs \ {0} : lfFs.readdir[d] \in SkippedCodes /\ Listable(d)
    /\ \E n \in ListedEntries : tree[n].parent # 0 /\ tree[n].kind = "other"
    /\ \E n \in ListedEntries : tree[n].parent # 0 /\ tree[n].kind = "file"


\* ---- C25 ----
\* the pattern is a literal name followed by "/**"
EndsInBareGlobstar(P) ==
    /\ Len(P) >= 4
    /\ SubSeq(P, Len(P) - 2, Len(P)) = <<"/", "*", "*">>
    /\ \A i \in 1..(Len(P) - 3) : P[i] \in {"a", "."}

\* p is the name, a "/", and one segment (which may be empty)
OneSegmentBelow(name, p) ==
    /\ Len(p) > Len(name)
    /\ SubSeq(p, 1, Len(name)) = name
    /\ p[Len(name) + 1] = "/"
    /\ \A i \in (Len(name) + 2)..Len(p) : p[i] # "/"

\* C25: a pattern that is a literal name followed by "/**" matches a string
\* exactly when the string is that name, a "/", and one segment: it matches
\* neither the name itself nor anything with a further "/".
C25_BareGlobstarIsOneSegment ==
    (verdict \in {"matched", "unmatched"} /\ Len(patterns) = 1
        /\ EndsInBareGlobstar(patterns[1])) =>
        (verdict = "matched"
            <=> OneSegmentBelow(SubSeq(patterns[1], 1, Len(patterns[1]) - 3), probe))

\* a/** was asked about a/a. and matched
C25_Witness ==
    /\ patterns = << <<"a", "/", "*", "*">> >>
    /\ probe = <<"a", "/", "a", ".">>
    /\ verdict = "matched"

\* a/** was asked about a/a/a and about a, and matched neither
C25_WitnessDeeper ==
    /\ patterns = << <<"a", "/", "*", "*">> >>
    /\ probe \in { <<"a", "/", "a", "/", "a">>, <<"a">> }
    /\ verdict = "unmatched"


\* ---- C26 ----
\* C26: results never holds a path twice, at any point of a call and so in the
\* list find returns, whatever the order the sub-walks run in and however
\* many of the patterns match an entry.
C26_EachPathOnce ==
    \A i, j \in 1..Len(results) : i # j => results[i] # results[j]

\* a call with two patterns that both match a.ts has resolved, the walk of sub
\* having pushed sub/c.ts before the walk of the base directory pushed a.ts
C26_Witness ==
    /\ outcome = "resolved"
    /\ Len(matchers) = 2
    /\ \E i \in 1..Len(results) :
          /\ results[i] = <<"a", ".", "t", "s">>
          /\ \A m \in 1..2 : test(matchers[m], results[i])
    /\ \E i, j \in 1..Len(results) :
          /\ i < j
          /\ results[i] = <<"s", "u", "b", "/", "c", ".", "t", "s">>
          /\ results[j] = <<"a", ".", "t", "s">>


\* ---- C27 ----
\* the entries that are neither directory nor regular file
Links == {n \in Nodes : tree[n].kind = "other"}

\* C27: every call of find resolves in the end; no walk is started on a
\* directory that already had one; no entry that is neither directory nor
\* file is ever pushed on results or given a walk.
C27_ResolvesAndNeverFollowsLinks ==
    /\ <>(outcome = "resolved")
    /\ [][\A d \in Dirs :
             (walks'[d].st = "opening" /\ walks[d].st # "opening") => walks[d].st = "none"]_vars
    /\ [][\A n \in Links :
             /\ \A i \in (Len(results) + 1)..Len(results') : results'[i] # Returns(n)
             /\ \A d \in Dirs : n \notin walks'[d].promises]_vars

\* the call has resolved after the walk of nm read the link nm/ln, which a
\* pattern of the call matches
C27_Witness ==
    /\ outcome = "resolved"
    /\ \E n \in Links :
          /\ walks[tree[n].parent].st = "done"
          /\ walks[tree[n].parent].pos > Len(Children(tree[n].parent))
          /\ MatchesPatterns(SplitJoin(Returns(n)))
          /\ opts.type = "all"


\* ---- C28 ----
\* the subdirectories the walk of d has read so far that no rule ignores
ReadSubdirs(d) ==
    {n \in Dirs \ {0} :
        /\ tree[n].parent = d
        /\ \E k \in 1..(walks[d].pos - 1) : Children(d)[k] = n
        /\ ~RuleIgnores(RelPosix(n))}

\* C28: a subdirectory that the walk of its parent has read and that is not
\* ignored has been given a walk exactly when the parent's depth is below
\* maxDepth, whatever `type` is and whether or not a pattern matches the
\* subdirectory's own path.
C28_DescentDependsOnDepthOnly ==
    \A d \in Dirs : \A n \in ReadSubdirs(d) :
        /\ n \in walks[d].promises <=> DepthOf(d) < opts.maxDepth
        /\ walks[n].st # "none" <=> DepthOf(d) < opts.maxDepth

\* type = 'files' and '**/*.ts': sub and sub/d match no pattern and are not
\* collected, and sub/d/e.ts has been returned
C28_Witness ==
    /\ outcome = "resolved"
    /\ tree = TreeMain
    /\ opts.type = "files"
    /\ patterns = <<PatTs>>
    /\ \A n \in {1, 5} : ~MatchesPatterns(RelPosix(n)) /\ walks[n].st = "done"
    /\ <<"s", "u", "b", "/", "d", "/", "e", ".", "t", "s">> \in ToSet(results)


\* ---- C29 ----
\* the keys the lines of a text assign: for every line that is not a comment,
\* the trimmed text before its first "="
LineKeys(content) ==
    LET lines == SplitLines(content, <<>>)
    IN  {Trim(SubSeq(lines[i], 1, IndexOfEq(lines[i]) - 1)) :
            i \in {i \in 1..Len(lines) :
                      /\ IndexOfEq(lines[i]) # 0
                      /\ ~StartsWith(Trim(lines[i]), "#")}}

\* the keys parseEnv finds in a text
ParsedKeys(content) == {parseEnv(content)[i].key : i \in 1..Len(parseEnv(content))}

RecordKeys == {ue.record[i].key : i \in 1..Len(ue.record)}

====
